---- MODULE Spec2Model ----
(***************************************************************************)
(* markdownlint-rule-mermaid: the two markdownlint rules (mermaid-syntax   *)
(* and katex-syntax), from fragment extraction to the report callback.     *)
(*                                                                         *)
(* Text is a sequence of one-character strings.  An HTML tag is a single   *)
(* element of such a sequence (an "atom"), as are the fixed phrases of the *)
(* parsers' failure messages; the regular expressions of the source are    *)
(* modelled on these sequences.  An optional value (null / undefined in    *)
(* the source) is None or Some(v).                                         *)
(***************************************************************************)
EXTENDS Integers, Sequences, FiniteSets, TLC

\* ------------------------------------------------------------------ bounds

\* Longest document, in tokens.
MaxTokens == 2
\* Rule runs in one process lifetime.
MaxRuns == 2
\* Largest line number a probed failure message names.
MaxLine == 11
\* Largest start line of a probed block.
MaxStartLine == 3
\* The pieces a text handed to decodeHtmlEntities is made of, at most.
MaxPieces == 2
\* Longest code handed to validateBasicBlock on its own, in lines.
MaxBasicLines == 2
\* Largest offset or position a probed parser failure carries.
MaxOffset == 6

\* ------------------------------------------------------------ text helpers

None == <<>>
Some(v) == <<v>>
IsSome(o) == o # <<>>
Get(o) == o[1]

MinOf(S) == CHOOSE x \in S : \A y \in S : x <= y

\* String.prototype.trim: the white space the model's alphabet holds.
IsSpace(c) == c \in {" ", "\n", "\t"}

RECURSIVE TrimStart(_)
TrimStart(s) ==
  IF s = <<>> THEN s
  ELSE IF IsSpace(Head(s)) THEN TrimStart(Tail(s)) ELSE s

RECURSIVE TrimEnd(_)
TrimEnd(s) ==
  IF s = <<>> THEN s
  ELSE IF IsSpace(s[Len(s)]) THEN TrimEnd(SubSeq(s, 1, Len(s) - 1)) ELSE s

Trim(s) == TrimEnd(TrimStart(s))

\* s.split('\n')
RECURSIVE SplitLines(_)
SplitLines(s) ==
  LET nl == {i \in 1..Len(s) : s[i] = "\n"} IN
  IF nl = {} THEN <<s>>
  ELSE LET i == MinOf(nl) IN
       <<SubSeq(s, 1, i - 1)>> \o SplitLines(SubSeq(s, i + 1, Len(s)))

\* (s.match(/\n/g) || []).length
CountNewlines(s) == Cardinality({i \in 1..Len(s) : s[i] = "\n"})

\* s.substring(from, to), both 0-based and clamped to the string
Substring(s, from, to) ==
  LET a == IF from < 0 THEN 0 ELSE IF from > Len(s) THEN Len(s) ELSE from
      b == IF to < 0 THEN 0 ELSE IF to > Len(s) THEN Len(s) ELSE to
  IN IF a <= b THEN SubSeq(s, a + 1, b) ELSE SubSeq(s, b + 1, a)

Letters ==
  {"a", "b", "d", "e", "f", "g", "i", "k", "l", "m", "n", "o", "p", "q", "r",
   "s", "t", "u", "x", "M"}
Digits == {"0", "1", "2", "3", "4", "5", "6", "7", "8", "9"}

\* String.prototype.toLowerCase on one character
LowerChar(c) == IF c = "M" THEN "m" ELSE c
ToLowerCase(s) == [i \in 1..Len(s) |-> LowerChar(s[i])]

\* s.replace(/pat/g, rep) for a literal pattern: one left-to-right pass
RECURSIVE ReplaceAll(_, _, _)
ReplaceAll(s, pat, rep) ==
  IF Len(s) < Len(pat) THEN s
  ELSE IF SubSeq(s, 1, Len(pat)) = pat
       THEN rep \o ReplaceAll(SubSeq(s, Len(pat) + 1, Len(s)), pat, rep)
       ELSE <<Head(s)>> \o ReplaceAll(Tail(s), pat, rep)

\* ------------------------------------------------------- fragment extraction

InfoMermaid == <<"m", "e", "r", "m", "a", "i", "d">>
InfoMath == <<"m", "a", "t", "h">>

KATEX_LANGS ==
  { InfoMath, <<"l", "a", "t", "e", "x">>, <<"t", "e", "x">>,
    <<"k", "a", "t", "e", "x">> }

\* Each pattern: the opening tags it accepts (a tag of the right name whose
\* class attribute holds the keyword as a word) and its closing tag.
HTML_MERMAID_PATTERNS ==
  << [open |-> {"<pre class='mermaid'>", "<pre class='language-mermaid'>"},
      close |-> "</pre>"],
     [open |-> {"<div class='mermaid'>"}, close |-> "</div>"],
     [open |-> {"<code class='language-mermaid'>"}, close |-> "</code>"] >>

HTML_KATEX_PATTERNS ==
  << [open |-> {"<span class='math'>"}, close |-> "</span>"],
     [open |-> {"<div class='math'>"}, close |-> "</div>"],
     [open |-> {"<code class='language-math'>", "<code class='language-latex'>",
                "<code class='language-tex'>", "<code class='language-katex'>"},
      close |-> "</code>"] >>

decodeHtmlEntities(code) ==
  LET s1 == ReplaceAll(code, <<"&", "l", "t", ";">>, <<"<">>)
      s2 == ReplaceAll(s1, <<"&", "g", "t", ";">>, <<">">>)
      s3 == ReplaceAll(s2, <<"&", "a", "m", "p", ";">>, <<"&">>)
      s4 == ReplaceAll(s3, <<"&", "q", "u", "o", "t", ";">>, <<"\"">>)
      s5 == ReplaceAll(s4, <<"&", "#", "3", "9", ";">>, <<"'">>)
  IN ReplaceAll(s5, <<"&", "n", "b", "s", "p", ";">>, <<" ">>)

\* html.matchAll(pattern) from position `from` (1-based): the leftmost opening
\* tag that has a closing tag after it, the lazy group up to the first such
\* closing tag, and then the matches after it.  index is 0-based.
RECURSIVE MatchAll(_, _, _)
MatchAll(html, pattern, from) ==
  LET starts == {p \in from..Len(html) :
                   /\ html[p] \in pattern.open
                   /\ \E q \in (p + 1)..Len(html) : html[q] = pattern.close}
  IN IF starts = {} THEN <<>>
     ELSE LET p == MinOf(starts)
              q == MinOf({r \in (p + 1)..Len(html) : html[r] = pattern.close})
          IN <<[index |-> p - 1, group |-> SubSeq(html, p + 1, q - 1)]>>
             \o MatchAll(html, pattern, q + 1)

\* The inner loop giving every block the line of the token itself.
BlocksOfMatchesAtTokenLine(html, startLine, ms) ==
  [k \in 1..Len(ms) |->
     [code |-> Trim(decodeHtmlEntities(ms[k].group)), startLine |-> startLine]]

\* The body of the inner loop: one CodeBlock per match.
BlocksOfMatches(html, startLine, ms) ==
  [k \in 1..Len(ms) |->
     [code |-> Trim(decodeHtmlEntities(ms[k].group)),
      startLine |-> startLine + CountNewlines(Substring(html, 0, ms[k].index))]]

RECURSIVE ExtractFromHtml(_, _, _, _)
ExtractFromHtml(patterns, k, html, startLine) ==
  IF k > Len(patterns) THEN <<>>
  ELSE BlocksOfMatches(html, startLine, MatchAll(html, patterns[k], 1))
       \o ExtractFromHtml(patterns, k + 1, html, startLine)

extractMermaidFromHtml(html, startLine) ==
  ExtractFromHtml(HTML_MERMAID_PATTERNS, 1, html, startLine)

extractKatexFromHtml(html, startLine) ==
  ExtractFromHtml(HTML_KATEX_PATTERNS, 1, html, startLine)

RECURSIVE extractMermaidBlocks(_)
extractMermaidBlocks(tokens) ==
  IF tokens = <<>> THEN <<>>
  ELSE LET token == Head(tokens)
           lang == ToLowerCase(Trim(token.info))
           here ==
             IF token.type = "fence"
             THEN IF lang = InfoMermaid
                  THEN <<[code |-> token.content, startLine |-> token.lineNumber]>>
                  ELSE <<>>
             ELSE IF token.type = "html_block"
                  THEN extractMermaidFromHtml(token.content, token.lineNumber)
                  ELSE <<>>
       IN here \o extractMermaidBlocks(Tail(tokens))

RECURSIVE extractKatexBlocks(_)
extractKatexBlocks(tokens) ==
  IF tokens = <<>> THEN <<>>
  ELSE LET token == Head(tokens)
           lang == ToLowerCase(Trim(token.info))
           here ==
             IF token.type = "fence"
             THEN IF lang \in KATEX_LANGS
                  THEN <<[code |-> token.content, startLine |-> token.lineNumber]>>
                  ELSE <<>>
             ELSE IF token.type = "html_block"
                  THEN extractKatexFromHtml(token.content, token.lineNumber)
                  ELSE <<>>
       IN here \o extractKatexBlocks(Tail(tokens))

\* ------------------------------------------------- the patterns' cursors
\* The patterns carry the g flag and are module-level objects: each has a
\* lastIndex that outlives a call.  lastIndex is 0-based.

\* The end of a match of MatchAll: its tags are one element each.
MatchEnd(m) == m.index + Len(m.group) + 2

\* A scan that trusts the shared cursor: it starts where the pattern's
\* lastIndex stands and leaves lastIndex at the end of the last match found.
ScanPatternFromCursor(pattern, html, lastIndex) ==
  LET ms == MatchAll(html, pattern, lastIndex + 1)
  IN [matches |-> ms,
      lastIndex |-> IF ms = <<>> THEN 0 ELSE MatchEnd(ms[Len(ms)])]

\* pattern.lastIndex = 0; html.matchAll(pattern): matchAll iterates a clone
\* that starts at the pattern's lastIndex, the pattern itself is not advanced.
ScanPattern(pattern, html, lastIndex) ==
  LET reset == 0
  IN [matches |-> MatchAll(html, pattern, reset + 1), lastIndex |-> reset]

\* extractMermaidFromHtml / extractKatexFromHtml with the cursors of the
\* patterns passed through: the blocks pushed, and the cursors afterwards.
RECURSIVE ScanHtml(_, _, _, _, _)
ScanHtml(patterns, k, html, startLine, cursors) ==
  IF k > Len(patterns) THEN [blocks |-> <<>>, cursors |-> cursors]
  ELSE LET s == ScanPattern(patterns[k], html, cursors[k])
           rest == ScanHtml(patterns, k + 1, html, startLine,
                            [cursors EXCEPT ![k] = s.lastIndex])
       IN [blocks |-> BlocksOfMatches(html, startLine, s.matches) \o rest.blocks,
           cursors |-> rest.cursors]

\* The loop over the tokens comparing the info string as it is written.
RECURSIVE ScanTokensExactInfo(_, _, _, _)
ScanTokensExactInfo(langs, patterns, tokens, cursors) ==
  IF tokens = <<>> THEN [blocks |-> <<>>, cursors |-> cursors]
  ELSE LET token == Head(tokens)
           here ==
             IF token.type = "fence" /\ token.info \in langs
             THEN [blocks |-> <<[code |-> token.content,
                                 startLine |-> token.lineNumber]>>,
                   cursors |-> cursors]
             ELSE IF token.type = "html_block"
                  THEN ScanHtml(patterns, 1, token.content, token.lineNumber, cursors)
                  ELSE [blocks |-> <<>>, cursors |-> cursors]
           rest == ScanTokensExactInfo(langs, patterns, Tail(tokens), here.cursors)
       IN [blocks |-> here.blocks \o rest.blocks, cursors |-> rest.cursors]

\* extractMermaidBlocks / extractKatexBlocks with the cursors passed through.
RECURSIVE ScanTokens(_, _, _, _)
ScanTokens(langs, patterns, tokens, cursors) ==
  IF tokens = <<>> THEN [blocks |-> <<>>, cursors |-> cursors]
  ELSE LET token == Head(tokens)
           lang == ToLowerCase(Trim(token.info))
           here ==
             IF token.type = "fence"
             THEN IF lang \in langs
                  THEN [blocks |-> <<[code |-> token.content,
                                      startLine |-> token.lineNumber]>>,
                        cursors |-> cursors]
                  ELSE [blocks |-> <<>>, cursors |-> cursors]
             ELSE IF token.type = "html_block"
                  THEN ScanHtml(patterns, 1, token.content, token.lineNumber, cursors)
                  ELSE [blocks |-> <<>>, cursors |-> cursors]
           rest == ScanTokens(langs, patterns, Tail(tokens), here.cursors)
       IN [blocks |-> here.blocks \o rest.blocks, cursors |-> rest.cursors]

\* ------------------------------------------------------------ the documents

\* The markdown-it tokens a document is made of, before their line numbers.
TokenShapes ==
  { [type |-> "fence", info |-> InfoMermaid, content |-> <<"a", "\n">>],
    [type |-> "fence", info |-> <<" ", "M", "e", "r", "m", "a", "i", "d">>,
     content |-> <<" ", "\n">>],
    [type |-> "fence", info |-> InfoMath, content |-> <<"a", "\n", "b", "\n">>],
    [type |-> "html_block", info |-> <<>>,
     content |-> <<"<div class='mermaid'>", "\n", "%", "%", "\n", "1", "</div>", "\n",
                   "<pre class='mermaid'>", "</pre>", "\n",
                   "<span class='math'>", " ", "</span>", "\n">>] }

\* Lines a token takes in the document, with the blank line after it.
Height(shape) ==
  IF shape.type = "fence" THEN CountNewlines(shape.content) + 3
  ELSE CountNewlines(shape.content) + 1

RECURSIVE TokensAt(_, _)
TokensAt(shapes, line) ==
  IF shapes = <<>> THEN <<>>
  ELSE <<[type |-> Head(shapes).type, info |-> Head(shapes).info,
          content |-> Head(shapes).content, lineNumber |-> line]>>
       \o TokensAt(Tail(shapes), line + Height(Head(shapes)))

\* The token sequences of the documents of at most MaxTokens tokens; the
\* first token is on line 2, as in the tests' documents.
Documents ==
  UNION { {TokensAt(shapes, 2) : shapes \in [1..n -> TokenShapes]} : n \in 0..MaxTokens }

\* The tokens the extractor is scanned over on its own: their info strings
\* are written in other cases and with spaces, or are no tag of either rule;
\* carriers of several shapes share one html_block, with entities and white
\* space in them; a carrier stands in a fence; an opening tag has no closing
\* tag.
ExtractShapes ==
  { [type |-> "fence", info |-> <<" ", "M", "e", "r", "m", "a", "i", "d", " ">>,
     content |-> <<"a", "\n">>],
    [type |-> "fence", info |-> <<"l", "a", "t", "e", "x">>,
     content |-> <<" ", "b", "\n">>],
    [type |-> "fence", info |-> <<"t", "e", "x", "t">>,
     content |-> <<"<div class='mermaid'>", "a", "</div>",
                   "<span class='math'>", "b", "</span>", "\n">>],
    [type |-> "html_block", info |-> <<>>,
     content |-> <<"<div class='mermaid'>", "\n", " ", "&", "l", "t", ";", "a", "\n",
                   "</div>", "\n", "<pre class='mermaid'>", "b", "</pre>", "\n",
                   "<div class='mermaid'>", "c", "\n">>],
    [type |-> "html_block", info |-> <<>>,
     content |-> <<"<code class='language-tex'>", "a", "</code>", "\n",
                   "<div class='math'>", "<span class='math'>", " ", "b", "</span>",
                   "</div>", "<span class='math'>", "c", "</span>", "\n">>] }

ExtractDocs ==
  UNION { {TokensAt(shapes, 2) : shapes \in [1..n -> ExtractShapes]} : n \in 0..MaxTokens }

\* ------------------------------------------------------ diagnostic translator
\* A raw failure message is a sequence whose elements are characters or the
\* fixed phrases the patterns look for.

DigitVal ==
  [c \in Digits |->
     CASE c = "0" -> 0 [] c = "1" -> 1 [] c = "2" -> 2 [] c = "3" -> 3
       [] c = "4" -> 4 [] c = "5" -> 5 [] c = "6" -> 6 [] c = "7" -> 7
       [] c = "8" -> 8 [] c = "9" -> 9]

\* Number.parseInt(digits, 10) of a non-empty run of digits
RECURSIVE ParseInt(_)
ParseInt(ds) ==
  IF Len(ds) = 1 THEN DigitVal[ds[1]]
  ELSE 10 * ParseInt(SubSeq(ds, 1, Len(ds) - 1)) + DigitVal[ds[Len(ds)]]

\* (\d+) at position p: the longest run of digits starting there
RECURSIVE DigitRun(_, _)
DigitRun(s, p) ==
  IF p <= Len(s) /\ s[p] \in Digits THEN <<s[p]>> \o DigitRun(s, p + 1) ELSE <<>>

\* The spellings a case-insensitive pattern accepts for a phrase.
ParseErrorPhrase == {"Parse error on line ", "parse error on line "}
LexicalErrorPhrase == {"Lexical error on line ", "lexical error on line "}

\* errorMessage.match(/Parse error on line (\d+):/i): the digits of the
\* leftmost match, or None
MatchParseError(msg) ==
  LET at == {p \in 1..Len(msg) :
               /\ msg[p] \in ParseErrorPhrase
               /\ DigitRun(msg, p + 1) # <<>>
               /\ p + Len(DigitRun(msg, p + 1)) + 1 <= Len(msg)
               /\ msg[p + Len(DigitRun(msg, p + 1)) + 1] = ":"}
  IN IF at = {} THEN None ELSE Some(DigitRun(msg, MinOf(at) + 1))

\* errorMessage.match(/Lexical error on line (\d+)/i)
MatchLexicalError(msg) ==
  LET at == {p \in 1..Len(msg) :
               msg[p] \in LexicalErrorPhrase /\ DigitRun(msg, p + 1) # <<>>}
  IN IF at = {} THEN None ELSE Some(DigitRun(msg, MinOf(at) + 1))

\* ([^']+) at position p: the longest run without an apostrophe
RECURSIVE NoQuoteRun(_, _)
NoQuoteRun(s, p) ==
  IF p <= Len(s) /\ s[p] # "'" THEN <<s[p]>> \o NoQuoteRun(s, p + 1) ELSE <<>>

\* errorMessage.match(/Expecting .+?, got '([^']+)'/): the group of the
\* leftmost match, or None
MatchExpectingGot(msg) ==
  LET ends(p) == {q \in (p + 2)..Len(msg) :
                    /\ msg[q] = ", got '"
                    /\ \A r \in (p + 1)..(q - 1) : msg[r] # "\n"
                    /\ NoQuoteRun(msg, q + 1) # <<>>
                    /\ q + Len(NoQuoteRun(msg, q + 1)) + 1 <= Len(msg)}
      at == {p \in 1..Len(msg) : msg[p] = "Expecting " /\ ends(p) # {}}
  IN IF at = {} THEN None
     ELSE Some(NoQuoteRun(msg, MinOf(ends(MinOf(at))) + 1))

TOKEN_HINTS ==
  [ SQS |-> [message |-> "Unclosed square bracket",
             hint |-> "Add closing ] to complete the node shape: A[text]"],
    PS |-> [message |-> "Unclosed parenthesis",
            hint |-> "Add closing ) to complete the node shape: A(text) or A((text))"],
    NEWLINE |-> [message |-> "Incomplete statement",
                 hint |-> "Add missing parts (e.g., colon for messages: Alice->>Bob: message)"],
    EOF |-> [message |-> "Unexpected end of diagram",
             hint |-> "Statement is incomplete - add missing node, message, or closing element"] ]

\* TOKEN_HINTS is an object literal: a property it does not have itself is
\* looked up in Object.prototype, whose properties are objects and functions
\* (all truthy) that have neither a message nor a hint.
ObjectPrototypeKeys == {"constructor", "toString", "valueOf", "__proto__"}

\* The value undefined, where a text is expected.
Undefined == "undefined"

\* TOKEN_HINTS[token] || null, for a token given as text
getTokenHint(token) ==
  IF Len(token) = 1 /\ token[1] \in DOMAIN TOKEN_HINTS
  THEN Some(TOKEN_HINTS[token[1]])
  ELSE IF Len(token) = 1 /\ token[1] \in ObjectPrototypeKeys
  THEN Some([message |-> Undefined, hint |-> Undefined])
  ELSE None

\* errorLines[i].includes('^')
HasCaret(line) == \E i \in 1..Len(line) : line[i] = "^"

\* line.replace(/^\.{3}/, '')
StripEllipsis(line) ==
  IF Len(line) >= 3 /\ SubSeq(line, 1, 3) = <<".", ".", ".">>
  THEN SubSeq(line, 4, Len(line)) ELSE line

extractContext(errorLines) ==
  LET carets == {i \in 1..Len(errorLines) : HasCaret(errorLines[i])} IN
  IF carets = {} THEN None
  ELSE IF MinOf(carets) > 1
       THEN Some(Trim(StripEllipsis(errorLines[MinOf(carets) - 1])))
       ELSE None

\* line.replace(/^Parse error on line \d+:\s*/, ''): case-sensitive
StripParseErrorHeader(line) ==
  IF /\ Len(line) >= 3
     /\ line[1] = "Parse error on line "
     /\ DigitRun(line, 2) # <<>>
     /\ 2 + Len(DigitRun(line, 2)) <= Len(line)
     /\ line[2 + Len(DigitRun(line, 2))] = ":"
  THEN TrimStart(SubSeq(line, 3 + Len(DigitRun(line, 2)), Len(line)))
  ELSE line

handleParseError(errorMessage, match) ==
  LET line == ParseInt(match)
      lines == SplitLines(errorMessage)
      expectingMatch == MatchExpectingGot(errorMessage)
      tokenInfo == getTokenHint(Get(expectingMatch))
      context == extractContext(lines)
  IN IF IsSome(expectingMatch)
     THEN IF IsSome(tokenInfo)
          THEN [line |-> Some(line), message |-> <<Get(tokenInfo).message>>,
                hint |-> IF Get(tokenInfo).hint = Undefined THEN None
                         ELSE Some(<<Get(tokenInfo).hint>>),
                context |-> context]
          ELSE [line |-> Some(line),
                message |-> <<"Syntax error: unexpected \"">>
                            \o Get(expectingMatch) \o <<"\"">>,
                hint |-> Some(<<"Check the syntax near this position">>),
                context |-> context]
     ELSE [line |-> Some(line), message |-> StripParseErrorHeader(lines[1]),
           hint |-> None, context |-> context]

handleNoDiagramType(code) ==
  LET firstLine == Trim(SplitLines(code)[1])
      displayLine == IF firstLine # <<>> THEN firstLine ELSE <<"(empty)">>
  IN [line |-> Some(1),
      message |-> <<"Unknown diagram type: \"">> \o displayLine \o <<"\"">>,
      hint |-> Some(<<"Valid types: flowchart, sequenceDiagram, classDiagram, stateDiagram, erDiagram, gantt, pie, mindmap, timeline, gitGraph">>),
      context |-> IF Substring(firstLine, 0, 40) # <<>>
                  THEN Some(Substring(firstLine, 0, 40)) ELSE None]

\* The single characters of the model's text; every other element of a
\* message is a phrase.
Chars ==
  Letters \cup Digits \cup
  {" ", "\n", "\t", "%", "^", ".", "-", "'", ":", "&", ";", "#", "<", ">",
   "\"", "[", "\\", "{", "}"}

\* the for-of loop of handleUnexpectedChar from its k-th line on
RECURSIVE OffsetLine(_, _, _, _, _)
OffsetLine(codeLines, k, pos, line, offset) ==
  IF k > Len(codeLines) THEN line
  ELSE IF pos + Len(codeLines[k]) >= offset THEN line
       ELSE OffsetLine(codeLines, k + 1, pos + Len(codeLines[k]) + 1, line + 1, offset)

\* match = [char, offset]: the two groups of the pattern
handleUnexpectedChar(match, code) ==
  [line |-> Some(OffsetLine(SplitLines(code), 1, 0, 1, ParseInt(match.offset))),
   message |-> <<"Unexpected character \"", match.char, "\"">>,
   hint |-> Some(<<"Check for typos, missing quotes, or invalid characters">>),
   context |-> None]

\* errorMessage.match(/unexpected character: ->(.)<- at offset: (\d+)/)
MatchUnexpectedChar(msg) ==
  LET at == {p \in 1..Len(msg) :
               /\ msg[p] = "unexpected character: ->"
               /\ p + 3 <= Len(msg)
               /\ msg[p + 1] \in Chars \ {"\n"}
               /\ msg[p + 2] = "<- at offset: "
               /\ DigitRun(msg, p + 3) # <<>>}
  IN IF at = {} THEN None
     ELSE Some([char |-> msg[MinOf(at) + 1],
                offset |-> DigitRun(msg, MinOf(at) + 3)])

ExpectingPhrase ==
  {"Expecting ", "expecting ", "Expecting token of type ",
   "expecting token of type "}
ButPhrase == {" but", " BUT"}

\* errorMessage.match(/Expecting(?: token of type)? '?([^']+)'? but/i): the
\* greedy group of the leftmost match, or None
MatchExpectingToken(msg) ==
  LET start(p) == IF p + 1 <= Len(msg) /\ msg[p + 1] = "'" THEN p + 2 ELSE p + 1
      ends(p) == {e \in start(p)..Len(msg) :
                    /\ \A r \in start(p)..e : msg[r] # "'"
                    /\ \/ e + 1 <= Len(msg) /\ msg[e + 1] \in ButPhrase
                       \/ /\ e + 2 <= Len(msg)
                          /\ msg[e + 1] = "'"
                          /\ msg[e + 2] \in ButPhrase}
      at == {p \in 1..Len(msg) : msg[p] \in ExpectingPhrase /\ ends(p) # {}}
  IN IF at = {} THEN None
     ELSE LET p == MinOf(at)
              e == CHOOSE x \in ends(p) : \A y \in ends(p) : y <= x
          IN Some(SubSeq(msg, start(p), e))

Includes(msg, phrase) == \E i \in 1..Len(msg) : msg[i] = phrase

\* The longest first line the default rule keeps.
FallbackMessageLimit == 150
\* The longest context taken from the code's first line.
ContextLimit == 40

\* The cascade whose last rule keeps the whole first line.
parseErrorMessageUncut(errorMessage, code) ==
  LET parseErrorMatch == MatchParseError(errorMessage)
      lexicalMatch == MatchLexicalError(errorMessage)
      unexpectedCharMatch == MatchUnexpectedChar(errorMessage)
      expectingTokenMatch == MatchExpectingToken(errorMessage)
  IN IF IsSome(parseErrorMatch)
     THEN handleParseError(errorMessage, Get(parseErrorMatch))
     ELSE IF IsSome(lexicalMatch)
     THEN [line |-> Some(ParseInt(Get(lexicalMatch))),
           message |-> <<"Unrecognized text or keyword">>,
           hint |-> Some(<<"Check for typos, invalid keywords, or unsupported syntax">>),
           context |-> None]
     ELSE IF Includes(errorMessage, "No diagram type detected")
     THEN handleNoDiagramType(code)
     ELSE IF IsSome(unexpectedCharMatch)
     THEN handleUnexpectedChar(Get(unexpectedCharMatch), code)
     ELSE IF IsSome(expectingTokenMatch)
     THEN [line |-> Some(1),
           message |-> <<"Expected ">> \o Get(expectingTokenMatch),
           hint |-> Some(<<"Check the diagram syntax and structure">>),
           context |-> None]
     ELSE IF Includes(errorMessage, "Expecting: one of these possible")
     THEN [line |-> Some(1), message |-> <<"Invalid syntax">>,
           hint |-> Some(<<"Check command syntax (e.g., branch name, checkout target)">>),
           context |-> None]
     ELSE [line |-> None,
           message |-> SplitLines(errorMessage)[1],
           hint |-> Some(<<"Check the diagram syntax for errors">>),
           context |-> None]

\* The cascade asking for the missing diagram type before anything else.
parseErrorMessageTypeFirst(errorMessage, code) ==
  LET parseErrorMatch == MatchParseError(errorMessage)
      lexicalMatch == MatchLexicalError(errorMessage)
      unexpectedCharMatch == MatchUnexpectedChar(errorMessage)
      expectingTokenMatch == MatchExpectingToken(errorMessage)
  IN IF Includes(errorMessage, "No diagram type detected")
     THEN handleNoDiagramType(code)
     ELSE IF IsSome(parseErrorMatch)
     THEN handleParseError(errorMessage, Get(parseErrorMatch))
     ELSE IF IsSome(lexicalMatch)
     THEN [line |-> Some(ParseInt(Get(lexicalMatch))),
           message |-> <<"Unrecognized text or keyword">>,
           hint |-> Some(<<"Check for typos, invalid keywords, or unsupported syntax">>),
           context |-> None]
     ELSE IF IsSome(unexpectedCharMatch)
     THEN handleUnexpectedChar(Get(unexpectedCharMatch), code)
     ELSE IF IsSome(expectingTokenMatch)
     THEN [line |-> Some(1),
           message |-> <<"Expected ">> \o Get(expectingTokenMatch),
           hint |-> Some(<<"Check the diagram syntax and structure">>),
           context |-> None]
     ELSE IF Includes(errorMessage, "Expecting: one of these possible")
     THEN [line |-> Some(1), message |-> <<"Invalid syntax">>,
           hint |-> Some(<<"Check command syntax (e.g., branch name, checkout target)">>),
           context |-> None]
     ELSE [line |-> None,
           message |-> Substring(SplitLines(errorMessage)[1], 0, FallbackMessageLimit),
           hint |-> Some(<<"Check the diagram syntax for errors">>),
           context |-> None]

parseErrorMessage(errorMessage, code) ==
  LET parseErrorMatch == MatchParseError(errorMessage)
      lexicalMatch == MatchLexicalError(errorMessage)
      unexpectedCharMatch == MatchUnexpectedChar(errorMessage)
      expectingTokenMatch == MatchExpectingToken(errorMessage)
  IN IF IsSome(parseErrorMatch)
     THEN handleParseError(errorMessage, Get(parseErrorMatch))
     ELSE IF IsSome(lexicalMatch)
     THEN [line |-> Some(ParseInt(Get(lexicalMatch))),
           message |-> <<"Unrecognized text or keyword">>,
           hint |-> Some(<<"Check for typos, invalid keywords, or unsupported syntax">>),
           context |-> None]
     ELSE IF Includes(errorMessage, "No diagram type detected")
     THEN handleNoDiagramType(code)
     ELSE IF IsSome(unexpectedCharMatch)
     THEN handleUnexpectedChar(Get(unexpectedCharMatch), code)
     ELSE IF IsSome(expectingTokenMatch)
     THEN [line |-> Some(1),
           message |-> <<"Expected ">> \o Get(expectingTokenMatch),
           hint |-> Some(<<"Check the diagram syntax and structure">>),
           context |-> None]
     ELSE IF Includes(errorMessage, "Expecting: one of these possible")
     THEN [line |-> Some(1), message |-> <<"Invalid syntax">>,
           hint |-> Some(<<"Check command syntax (e.g., branch name, checkout target)">>),
           context |-> None]
     ELSE [line |-> None,
           message |-> Substring(SplitLines(errorMessage)[1], 0, FallbackMessageLimit),
           hint |-> Some(<<"Check the diagram syntax for errors">>),
           context |-> None]

formatErrorDetail(parsed) ==
  IF IsSome(parsed.hint) /\ Get(parsed.hint) # <<>>
  THEN parsed.message \o <<". ">> \o Get(parsed.hint)
  ELSE parsed.message

\* toValidationError adding the fragment-relative line to the start line as
\* if both were counted from the same line.
toValidationErrorNoOffset(parsed, startLine, code) ==
  [lineNumber |-> IF IsSome(parsed.line) /\ Get(parsed.line) # 0
                  THEN startLine + Get(parsed.line) ELSE startLine,
   detail |-> formatErrorDetail(parsed),
   context |-> IF IsSome(parsed.context) /\ Get(parsed.context) # <<>>
               THEN parsed.context
               ELSE Some(Substring(SplitLines(code)[1], 0, ContextLimit))]

\* The context of the diagnostic passed on as it is.
toValidationErrorContextAsIs(parsed, startLine, code) ==
  [lineNumber |-> IF IsSome(parsed.line) /\ Get(parsed.line) # 0
                  THEN startLine + Get(parsed.line) - 1 ELSE startLine,
   detail |-> formatErrorDetail(parsed),
   context |-> parsed.context]

\* The fragment line added to the start line whenever the diagnostic has
\* one, line 0 included.
toValidationErrorAnyLine(parsed, startLine, code) ==
  [lineNumber |-> IF IsSome(parsed.line)
                  THEN startLine + Get(parsed.line) - 1 ELSE startLine,
   detail |-> formatErrorDetail(parsed),
   context |-> IF IsSome(parsed.context) /\ Get(parsed.context) # <<>>
               THEN parsed.context
               ELSE Some(Substring(SplitLines(code)[1], 0, ContextLimit))]

toValidationError(parsed, startLine, code) ==
  [lineNumber |-> IF IsSome(parsed.line) /\ Get(parsed.line) # 0
                  THEN startLine + Get(parsed.line) - 1 ELSE startLine,
   detail |-> formatErrorDetail(parsed),
   context |-> IF IsSome(parsed.context) /\ Get(parsed.context) # <<>>
               THEN parsed.context
               ELSE Some(Substring(SplitLines(code)[1], 0, ContextLimit))]

\* ------------------------------------------------------------ precheck guard
\* A Result is Ok(block) or Err(validationError).

Ok(v) == [kind |-> "ok", value |-> v]
Err(e) == [kind |-> "err", error |-> e]
IsOk(r) == r.kind = "ok"
IsErr(r) == r.kind = "err"

\* checkNotEmpty testing the code as given, without trimming it first.
checkNotEmptyUntrimmed(block) ==
  IF block.code = <<>>
  THEN Err([lineNumber |-> block.startLine,
            detail |-> <<"Empty Mermaid diagram. Add a diagram type (e.g., flowchart, sequenceDiagram) and content">>,
            context |-> None])
  ELSE Ok([code |-> Trim(block.code), startLine |-> block.startLine])

checkNotEmpty(block) ==
  LET trimmed == Trim(block.code) IN
  IF trimmed = <<>>
  THEN Err([lineNumber |-> block.startLine,
            detail |-> <<"Empty Mermaid diagram. Add a diagram type (e.g., flowchart, sequenceDiagram) and content">>,
            context |-> None])
  ELSE Ok([code |-> trimmed, startLine |-> block.startLine])

checkKatexNotEmpty(block) ==
  LET trimmed == Trim(block.code) IN
  IF trimmed = <<>>
  THEN Err([lineNumber |-> block.startLine,
            detail |-> <<"Empty math block. Add a LaTeX expression (e.g., E = mc^2)">>,
            context |-> None])
  ELSE Ok([code |-> trimmed, startLine |-> block.startLine])

\* The loop going on after a line that holds no type: any later line that
\* begins with a letter sets foundType.
FoundTypeAnyLine(lines, k) ==
  \E j \in k..Len(lines) : Trim(lines[j]) # <<>> /\ Trim(lines[j])[1] \in Letters

\* the for-of loop of validateBasicBlock from its k-th line on: foundType
RECURSIVE FoundType(_, _)
FoundType(lines, k) ==
  IF k > Len(lines) THEN FALSE
  ELSE LET trimmedLine == Trim(lines[k]) IN
       IF trimmedLine = <<>>
          \/ (Len(trimmedLine) >= 2 /\ SubSeq(trimmedLine, 1, 2) = <<"%", "%">>)
       THEN FoundType(lines, k + 1)
       ELSE trimmedLine[1] \in Letters

validateBasicBlock(block) ==
  LET emptyCheck == checkNotEmpty(block)
      lines == SplitLines(emptyCheck.value.code)
  IN IF IsErr(emptyCheck) THEN emptyCheck
     ELSE IF ~FoundType(lines, 1)
     THEN Err([lineNumber |-> block.startLine,
               detail |-> <<"Missing diagram type declaration. Start with a diagram type like: flowchart, sequenceDiagram, classDiagram">>,
               context |-> Some(Substring(Trim(lines[1]), 0, ContextLimit))])
     ELSE emptyCheck

\* ------------------------------------------------------- KaTeX diagnostics
\* A thrown value is [kind |-> "ParseError", message, position] (position an
\* optional number), [kind |-> "Error", message] or [kind |-> "value"].

KatexPrefix == {"KaTeX parse error: ", "katex parse error: "}

\* message.replace(/^KaTeX parse error:\s*/i, '')
StripKatexPrefix(message) ==
  IF message # <<>> /\ message[1] \in KatexPrefix
  THEN TrimStart(Tail(message)) ELSE message

\* The hints asked for with the missing argument before the unknown command.
getKatexErrorHintGroupFirst(message) ==
  IF Includes(message, "Expected group")
  THEN <<". Add the required argument in braces: \\command{argument}">>
  ELSE IF Includes(message, "Undefined control sequence")
  THEN <<". Check for typos in command names or use \\text{} for regular text">>
  ELSE IF Includes(message, "Expected '}'")
  THEN <<". Make sure all braces {} are properly closed">>
  ELSE IF Includes(message, "Unexpected end of input")
  THEN <<". The expression is incomplete - check for missing closing braces or arguments">>
  ELSE <<>>

getKatexErrorHint(message) ==
  IF Includes(message, "Undefined control sequence")
  THEN <<". Check for typos in command names or use \\text{} for regular text">>
  ELSE IF Includes(message, "Expected '}'")
  THEN <<". Make sure all braces {} are properly closed">>
  ELSE IF Includes(message, "Expected group")
  THEN <<". Add the required argument in braces: \\command{argument}">>
  ELSE IF Includes(message, "Unexpected end of input")
  THEN <<". The expression is incomplete - check for missing closing braces or arguments">>
  ELSE <<>>

\* The line of the error taken to be the first line of the fragment.
calculateKatexErrorLineAtStart(code, position, startLine) == startLine

calculateKatexErrorLine(code, position, startLine) ==
  startLine + CountNewlines(Substring(code, 0, position))

\* The characters of context kept on each side of the position.
KatexContextRadius == 15

extractKatexContext(code, position) ==
  LET start == IF position - KatexContextRadius > 0
               THEN position - KatexContextRadius ELSE 0
      end == IF position + KatexContextRadius < Len(code)
             THEN position + KatexContextRadius ELSE Len(code)
  IN ReplaceAll(Substring(code, start, end), <<"\n">>, <<" ">>)

parseKatexError(error, block) ==
  IF error.kind = "ParseError"
  THEN LET cleanMessage == StripKatexPrefix(error.message)
           hint == getKatexErrorHint(cleanMessage)
       IN [lineNumber |-> IF IsSome(error.position)
                          THEN calculateKatexErrorLine(block.code, Get(error.position),
                                                       block.startLine)
                          ELSE block.startLine,
           detail |-> cleanMessage \o hint,
           context |-> IF IsSome(error.position)
                       THEN Some(extractKatexContext(block.code, Get(error.position)))
                       ELSE None]
  ELSE [lineNumber |-> block.startLine,
        detail |-> IF error.kind = "Error" THEN error.message
                   ELSE <<"Unknown KaTeX parse error">>,
        context |-> Some(Substring(block.code, 0, ContextLimit))]

\* ---------------------------------------------------------- parser adapters
\* What an external parser call ends with: [kind |-> "resolve"] or
\* [kind |-> "throw", error |-> thrown value].  A promise the adapter leaves
\* rejected is [kind |-> "rejected"].

Resolve == [kind |-> "resolve"]
Throw(e) == [kind |-> "throw", error |-> e]
Rejected == [kind |-> "rejected"]
IsRejected(r) == r.kind = "rejected"

\* error instanceof Error ? error.message : 'Unknown parse error'
ThrownMessage(error) ==
  IF error.kind \in {"Error", "ParseError"} THEN error.message
  ELSE <<"Unknown parse error">>

\* parseMermaidSyntax converting only Error instances and leaving any other
\* thrown value as the promise's rejection.
parseMermaidSyntaxErrorsOnly(block, outcome) ==
  IF outcome.kind = "resolve" THEN Ok(block)
  ELSE IF outcome.error.kind \in {"Error", "ParseError"}
  THEN Err(toValidationError(parseErrorMessage(outcome.error.message, block.code),
                             block.startLine, block.code))
  ELSE Rejected

\* The error mapper of ResultAsync.fromPromise in parseMermaidSyntax, applied
\* to whatever the promise getMermaid().then(...) ends with.
parseMermaidSyntax(block, outcome) ==
  IF outcome.kind = "resolve" THEN Ok(block)
  ELSE LET errorMessage == ThrownMessage(outcome.error)
           parsed == parseErrorMessage(errorMessage, block.code)
       IN Err(toValidationError(parsed, block.startLine, block.code))

\* try { katexParser.__parse(...) } catch (error) { ... }
validateKatexSyntax(block, outcome) ==
  IF outcome.kind = "resolve" THEN Ok(block)
  ELSE Err(parseKatexError(outcome.error, block))

validateKatexBlock(block, outcome) ==
  LET emptyCheck == checkKatexNotEmpty(block) IN
  IF IsErr(emptyCheck) THEN emptyCheck
  ELSE validateKatexSyntax(emptyCheck.value, outcome)

\* ------------------------------------------------- what the parsers can throw

MsgParseError ==
  <<"Parse error on line ", "2", ":", "\n", ".", ".", ".", "a", " ", "[", "\n",
    "-", "-", "^", "\n", "Expecting ", "'", "SQE", "'", ", got '", "SQS", "'">>
MsgOther == <<"x">>

\* mermaid.parse rejects with an Error or with a value that is no Error.
MermaidThrown ==
  { [kind |-> "Error", message |-> MsgParseError],
    [kind |-> "value"] }

\* import('mermaid') rejecting, mermaid.initialize throwing.
InitThrown == { [kind |-> "Error", message |-> MsgOther] }

MsgKatexUndefined ==
  <<"KaTeX parse error: ", "Undefined control sequence", ":", " ", "\\", "x">>

KatexThrown ==
  { [kind |-> "ParseError", message |-> MsgKatexUndefined, position |-> Some(2)],
    [kind |-> "ParseError", message |-> MsgKatexUndefined, position |-> None],
    [kind |-> "Error", message |-> MsgOther],
    [kind |-> "value"] }

\* ------------------------------------------------------------------- state

VARIABLES
  mermaidInstance,  \* TRUE once getMermaid has stored the instance
  windowDefined,    \* globalThis.window is set
  domSetups,        \* times the JSDOM shim was built
  initializeCalls,  \* times mermaid.initialize was called
  runs,             \* rule runs started in this process
  rule,             \* the rule of the current run: "mermaid" or "katex"
  useBasic,         \* config.basic of the current run
  blocks,           \* the fragments extracted for the current run
  pc,               \* where the run function is
  idx,              \* the block the run's loop (or map) is at
  task,             \* full mode: where each block's validation is ("importing":
                    \* its getMermaid call has called import('mermaid'))
  results,          \* full mode: each block's settled result
  settled,          \* full mode: the blocks in the order their results settled
  acquired,         \* the blocks getMermaid was called for in this run
  parsed,           \* the blocks the external parser was called for in this run
  reported,         \* the onError calls of this run, in order
  reportedFor,      \* for each onError call, the block it was made for
  raised,           \* the run threw (or its promise rejected) to its caller
  failure,          \* a parser failure handed to the adapter on its own
  failed,           \* the block that failure is for
  converted,        \* the ValidationError the adapter made of it, once made
  translated,       \* the ParsedError the translator made of it on the way
  lastIndex,        \* the lastIndex of each pattern of each rule's pattern list
  document,         \* the tokens the extractor was last called with on its own
  fragments,        \* what that call returned
  rescan,           \* the call before it ran the same extractor and matched a
                    \* carrier
  encoded,          \* a text handed to decodeHtmlEntities on its own
  decoded,          \* what it returned, once called
  call,             \* a function of the validators called on its own: its
                    \* name and its arguments
  returned          \* what the call returned, once made

process == <<mermaidInstance, windowDefined, domSetups, initializeCalls>>
run == <<runs, rule, useBasic, blocks, pc, idx>>
fanout == <<task, results, settled, acquired, parsed>>
output == <<reported, reportedFor, raised>>
scanner == <<lastIndex, document, fragments, rescan>>
decoder == <<encoded, decoded>>
caller == <<call, returned>>
probe == <<failure, failed, converted, translated, scanner, decoder, caller>>
vars == <<process, run, fanout, output, probe>>

\* The patterns as the module's load leaves them, and no call made yet.
ScannerIdle ==
  /\ lastIndex = [mermaid |-> [k \in 1..Len(HTML_MERMAID_PATTERNS) |-> 0],
                  katex |-> [k \in 1..Len(HTML_KATEX_PATTERNS) |-> 0]]
  /\ document = <<>>
  /\ fragments = <<>>
  /\ rescan = FALSE

DecoderIdle ==
  /\ encoded = <<>>
  /\ decoded = None

CallerIdle ==
  /\ call = [fn |-> "none"]
  /\ returned = None

Init ==
  /\ mermaidInstance = FALSE
  /\ windowDefined = FALSE
  /\ domSetups = 0
  /\ initializeCalls = 0
  /\ runs = 0
  /\ rule = "mermaid"
  /\ useBasic = FALSE
  /\ blocks = <<>>
  /\ pc = "idle"
  /\ idx = 1
  /\ task = <<>>
  /\ results = <<>>
  /\ settled = <<>>
  /\ acquired = {}
  /\ parsed = {}
  /\ reported = <<>>
  /\ reportedFor = <<>>
  /\ raised = FALSE
  /\ failure = [kind |-> "value"]
  /\ failed = [code |-> <<>>, startLine |-> 1]
  /\ converted = None
  /\ translated = None
  /\ ScannerIdle
  /\ DecoderIdle
  /\ CallerIdle

\* onError(error), made for block i
Report(i, error) ==
  /\ reported' = Append(reported, error)
  /\ reportedFor' = Append(reportedFor, i)

\* The host calls the rule function: the blocks are extracted and the mode
\* is chosen.
BeginRun(bs, where) ==
  /\ pc = "idle"
  /\ runs < MaxRuns
  /\ runs' = runs + 1
  /\ blocks' = bs
  /\ pc' = where
  /\ idx' = 1
  /\ task' = [i \in 1..Len(bs) |-> "unstarted"]
  /\ results' = [i \in 1..Len(bs) |-> None]
  /\ settled' = <<>>
  /\ acquired' = {}
  /\ parsed' = {}
  /\ reported' = <<>>
  /\ reportedFor' = <<>>
  /\ raised' = FALSE
  /\ UNCHANGED <<process, probe>>

\* The branch taken without reading config.basic.
ModeIgnoringConfig(basic) == "fanout"

\* config.basic ?? false, and the branch on it
ModeOf(basic) == IF basic THEN "basic" ELSE "fanout"

StartMermaidRun ==
  \E tokens \in Documents, basic \in BOOLEAN :
    /\ rule' = "mermaid"
    /\ useBasic' = basic
    /\ BeginRun(extractMermaidBlocks(tokens), ModeOf(basic))

StartKatexRun ==
  \E tokens \in Documents :
    /\ rule' = "katex"
    /\ useBasic' = FALSE
    /\ BeginRun(extractKatexBlocks(tokens), "katex")

\* The basic loop leaving at the first failure it reports.
BasicStepStopsAtFailure ==
  /\ pc = "basic"
  /\ idx <= Len(blocks)
  /\ LET r == validateBasicBlock(blocks[idx]) IN
       /\ results' = [results EXCEPT ![idx] = Some(r)]
       /\ IF IsErr(r)
          THEN Report(idx, r.error) /\ idx' = Len(blocks) + 1
          ELSE UNCHANGED <<reported, reportedFor>> /\ idx' = idx + 1
  /\ UNCHANGED <<process, runs, rule, useBasic, blocks, pc, task, settled,
                 acquired, parsed, raised, probe>>

\* basic mode, one iteration: validateBasicBlock(block).mapErr(onError)
BasicStep ==
  /\ pc = "basic"
  /\ idx <= Len(blocks)
  /\ LET r == validateBasicBlock(blocks[idx]) IN
       /\ results' = [results EXCEPT ![idx] = Some(r)]
       /\ IF IsErr(r) THEN Report(idx, r.error)
          ELSE UNCHANGED <<reported, reportedFor>>
  /\ idx' = idx + 1
  /\ UNCHANGED <<process, runs, rule, useBasic, blocks, pc, task, settled,
                 acquired, parsed, raised, probe>>

\* katex rule, one iteration: validateKatexBlock(block, config).mapErr(onError).
\* An exception the adapter does not catch leaves the loop and the run.
KatexStep ==
  /\ pc = "katex"
  /\ idx <= Len(blocks)
  /\ \E outcome \in {Resolve} \cup {Throw(e) : e \in KatexThrown} :
       LET empty == IsErr(checkKatexNotEmpty(blocks[idx]))
           r == validateKatexBlock(blocks[idx], outcome)
       IN /\ empty => outcome = Resolve
          /\ parsed' = IF empty THEN parsed ELSE parsed \cup {idx}
          /\ results' = [results EXCEPT ![idx] = Some(r)]
          /\ IF IsRejected(r)
             THEN /\ raised' = TRUE
                  /\ pc' = "done"
                  /\ UNCHANGED <<reported, reportedFor>>
             ELSE /\ IF IsErr(r) THEN Report(idx, r.error)
                     ELSE UNCHANGED <<reported, reportedFor>>
                  /\ UNCHANGED <<raised, pc>>
  /\ idx' = idx + 1
  /\ UNCHANGED <<process, runs, rule, useBasic, blocks, task, settled,
                 acquired, probe>>

\* The loop of a synchronous mode is over: the run function returns.
Return ==
  /\ pc \in {"basic", "katex"}
  /\ idx > Len(blocks)
  /\ pc' = "done"
  /\ UNCHANGED <<process, runs, rule, useBasic, blocks, idx, fanout, output, probe>>

\* ---------------------------------------------------------- full mode

Settle(i, r) ==
  /\ results' = [results EXCEPT ![i] = Some(r)]
  /\ task' = [task EXCEPT ![i] = "settled"]
  /\ settled' = Append(settled, i)

\* validateMermaidBlock handing an empty block's error to onError at once,
\* as basic mode does.
validateMermaidBlockReportsAtOnce ==
  /\ pc = "fanout"
  /\ idx <= Len(blocks)
  /\ LET emptyCheck == checkNotEmpty(blocks[idx]) IN
       IF IsErr(emptyCheck)
       THEN /\ Settle(idx, Ok(blocks[idx]))
            /\ Report(idx, emptyCheck.error)
            /\ UNCHANGED <<process, acquired>>
       ELSE /\ acquired' = acquired \cup {idx}
            /\ UNCHANGED <<results, settled, reported, reportedFor>>
            /\ IF mermaidInstance
               THEN /\ task' = [task EXCEPT ![idx] = "resolved"]
                    /\ UNCHANGED process
               ELSE /\ task' = [task EXCEPT ![idx] = "importing"]
                    /\ windowDefined' = TRUE
                    /\ domSetups' = IF windowDefined THEN domSetups ELSE domSetups + 1
                    /\ UNCHANGED <<mermaidInstance, initializeCalls>>
  /\ idx' = idx + 1
  /\ UNCHANGED <<runs, rule, useBasic, blocks, pc, parsed, raised, probe>>

\* validateMermaidBlock going on to parseMermaidSyntax whatever the precheck
\* returned.
validateMermaidBlockNoShortCircuit ==
  /\ pc = "fanout"
  /\ idx <= Len(blocks)
  /\ acquired' = acquired \cup {idx}
  /\ UNCHANGED <<results, settled>>
  /\ IF mermaidInstance
     THEN /\ task' = [task EXCEPT ![idx] = "resolved"]
          /\ UNCHANGED process
     ELSE /\ task' = [task EXCEPT ![idx] = "importing"]
          /\ windowDefined' = TRUE
          /\ domSetups' = IF windowDefined THEN domSetups ELSE domSetups + 1
          /\ UNCHANGED <<mermaidInstance, initializeCalls>>
  /\ idx' = idx + 1
  /\ UNCHANGED <<runs, rule, useBasic, blocks, pc, parsed, output, probe>>

\* validateMermaidBlock whose getMermaid does not look at the stored instance
\* and sets the backend up at every call.
validateMermaidBlockNoCache ==
  /\ pc = "fanout"
  /\ idx <= Len(blocks)
  /\ LET emptyCheck == checkNotEmpty(blocks[idx]) IN
       IF IsErr(emptyCheck)
       THEN /\ Settle(idx, emptyCheck)
            /\ UNCHANGED <<process, acquired>>
       ELSE /\ acquired' = acquired \cup {idx}
            /\ UNCHANGED <<results, settled>>
            /\ task' = [task EXCEPT ![idx] = "importing"]
            /\ windowDefined' = TRUE
            /\ domSetups' = IF windowDefined THEN domSetups ELSE domSetups + 1
            /\ UNCHANGED <<mermaidInstance, initializeCalls>>
  /\ idx' = idx + 1
  /\ UNCHANGED <<runs, rule, useBasic, blocks, pc, parsed, output, probe>>

\* validateMermaidBlock(block) up to its first suspension, for the block the
\* map is at: the precheck, and for a non-empty block the synchronous part of
\* getMermaid (the cache test, the DOM shim, the call of import).
validateMermaidBlock ==
  /\ pc = "fanout"
  /\ idx <= Len(blocks)
  /\ LET emptyCheck == checkNotEmpty(blocks[idx]) IN
       IF IsErr(emptyCheck)
       THEN /\ Settle(idx, emptyCheck)
            /\ UNCHANGED <<process, acquired>>
       ELSE /\ acquired' = acquired \cup {idx}
            /\ UNCHANGED <<results, settled>>
            /\ IF mermaidInstance
               THEN /\ task' = [task EXCEPT ![idx] = "resolved"]
                    /\ UNCHANGED process
               ELSE /\ task' = [task EXCEPT ![idx] = "importing"]
                    /\ windowDefined' = TRUE
                    /\ domSetups' = IF windowDefined THEN domSetups ELSE domSetups + 1
                    /\ UNCHANGED <<mermaidInstance, initializeCalls>>
  /\ idx' = idx + 1
  /\ UNCHANGED <<runs, rule, useBasic, blocks, pc, parsed, output, probe>>

\* The run function awaiting the first block's validation before it maps the
\* next block.
AwaitEachBlock ==
  /\ pc = "fanout"
  /\ idx > 1
  /\ pc' = "join"
  /\ UNCHANGED <<process, runs, rule, useBasic, blocks, idx, fanout, output, probe>>

\* Every block is mapped: the run function suspends at its await.
Await ==
  /\ pc = "fanout"
  /\ idx > Len(blocks)
  /\ pc' = "join"
  /\ UNCHANGED <<process, runs, rule, useBasic, blocks, idx, fanout, output, probe>>

\* getMermaid storing the instance before it calls mermaid.initialize, so
\* that an instance whose initialization threw stays stored.
getMermaidResumeStoresFirst(i) ==
  /\ pc = "join"
  /\ task[i] = "importing"
  /\ \/ \E e \in InitThrown :
          /\ Settle(i, parseMermaidSyntax(checkNotEmpty(blocks[i]).value, Throw(e)))
          /\ UNCHANGED process
     \/ \E e \in InitThrown :
          /\ initializeCalls' = initializeCalls + 1
          /\ mermaidInstance' = TRUE
          /\ Settle(i, parseMermaidSyntax(checkNotEmpty(blocks[i]).value, Throw(e)))
          /\ UNCHANGED <<windowDefined, domSetups>>
     \/ /\ initializeCalls' = initializeCalls + 1
        /\ mermaidInstance' = TRUE
        /\ task' = [task EXCEPT ![i] = "resolved"]
        /\ UNCHANGED <<windowDefined, domSetups, results, settled>>
  /\ UNCHANGED <<run, acquired, parsed, output, probe>>

\* getMermaid resumes after `await import('mermaid')` for block i: the import
\* rejected, or mermaid.initialize is called and throws, or it returns and
\* the instance is stored.
getMermaidResume(i) ==
  /\ pc = "join"
  /\ task[i] = "importing"
  /\ \/ \E e \in InitThrown :
          /\ Settle(i, parseMermaidSyntax(checkNotEmpty(blocks[i]).value, Throw(e)))
          /\ UNCHANGED process
     \/ \E e \in InitThrown :
          /\ initializeCalls' = initializeCalls + 1
          /\ Settle(i, parseMermaidSyntax(checkNotEmpty(blocks[i]).value, Throw(e)))
          /\ UNCHANGED <<mermaidInstance, windowDefined, domSetups>>
     \/ /\ initializeCalls' = initializeCalls + 1
        /\ mermaidInstance' = TRUE
        /\ task' = [task EXCEPT ![i] = "resolved"]
        /\ UNCHANGED <<windowDefined, domSetups, results, settled>>
  /\ UNCHANGED <<run, acquired, parsed, output, probe>>

\* The then-callback of parseMermaidSyntax runs for block i: mermaid.parse is
\* called.
CallParse(i) ==
  /\ pc = "join"
  /\ task[i] = "resolved"
  /\ task' = [task EXCEPT ![i] = "parsing"]
  /\ parsed' = parsed \cup {i}
  /\ UNCHANGED <<process, run, results, settled, acquired, output, probe>>

\* mermaid.parse settling for block i with the error mapper holding the
\* block the map started with instead of its own.
ParseSettlesSharedBlock(i) ==
  /\ pc = "join"
  /\ task[i] = "parsing"
  /\ \E outcome \in {Resolve} \cup {Throw(e) : e \in MermaidThrown} :
       Settle(i, parseMermaidSyntax(checkNotEmpty(blocks[MinOf(acquired)]).value, outcome))
  /\ UNCHANGED <<process, run, acquired, parsed, output, probe>>

\* mermaid.parse settles for block i.
ParseSettles(i) ==
  /\ pc = "join"
  /\ task[i] = "parsing"
  /\ \E outcome \in {Resolve} \cup {Throw(e) : e \in MermaidThrown} :
       Settle(i, parseMermaidSyntax(checkNotEmpty(blocks[i]).value, outcome))
  /\ UNCHANGED <<process, run, acquired, parsed, output, probe>>

\* combineWithAllErrors collecting the errors as the results settle.
combineInCompletionOrder(resultList) ==
  SelectSeq(settled, LAMBDA n : IsErr(resultList[n]))

\* ResultAsync.combine in place of combineWithAllErrors: the first error only.
combineFirstError(resultList) ==
  LET errs == {n \in 1..Len(resultList) : IsErr(resultList[n])} IN
  IF errs = {} THEN <<>> ELSE <<MinOf(errs)>>

\* ResultAsync.combineWithAllErrors on the settled results: the errors of the
\* Err it returns (none when it returns Ok), each named by the position of its
\* result in the list.  The accumulator walks the list from its first result
\* to its last.
combineWithAllErrors(resultList) ==
  LET acc[n \in 0..Len(resultList)] ==
        IF n = 0 THEN <<>>
        ELSE IF IsErr(resultList[n]) THEN Append(acc[n - 1], n) ELSE acc[n - 1]
  IN acc[Len(resultList)]

\* results.mapErr((errors) => { for (const error of errors) onError(error) }):
\* the blocks whose errors are handed to onError, in the order of the calls
ErrorsToReport == combineWithAllErrors([i \in 1..Len(results) |-> Get(results[i])])

\* Every result is in: Promise.all settles, the await returns (or throws, when
\* a promise was left rejected) and the errors are reported.
JoinAll ==
  /\ pc = "join"
  /\ \A i \in 1..Len(blocks) : task[i] = "settled"
  /\ pc' = "done"
  /\ IF \E i \in 1..Len(blocks) : IsRejected(Get(results[i]))
     THEN /\ raised' = TRUE
          /\ UNCHANGED <<reported, reportedFor>>
     ELSE /\ reported' = [k \in 1..Len(ErrorsToReport) |->
                           Get(results[ErrorsToReport[k]]).error]
          /\ reportedFor' = ErrorsToReport
          /\ UNCHANGED raised
  /\ UNCHANGED <<process, runs, rule, useBasic, blocks, idx, fanout, probe>>

\* The host has the run's outcome; the process is ready for its next run.
Collect ==
  /\ pc = "done"
  /\ pc' = "idle"
  /\ blocks' = <<>>
  /\ idx' = 1
  /\ task' = <<>>
  /\ results' = <<>>
  /\ settled' = <<>>
  /\ acquired' = {}
  /\ parsed' = {}
  /\ reported' = <<>>
  /\ reportedFor' = <<>>
  /\ raised' = FALSE
  /\ UNCHANGED <<process, runs, rule, useBasic, probe>>

Next ==
  \/ StartMermaidRun
  \/ StartKatexRun
  \/ BasicStep
  \/ KatexStep
  \/ Return
  \/ validateMermaidBlock
  \/ Await
  \/ \E i \in 1..Len(blocks) : getMermaidResume(i)
  \/ \E i \in 1..Len(blocks) : CallParse(i)
  \/ \E i \in 1..Len(blocks) : ParseSettles(i)
  \/ JoinAll
  \/ Collect

Spec == Init /\ [][Next]_vars

\* ------------------------------------------ the adapter on a single failure
\* The error mapper of parseMermaidSyntax applied to one failure of one
\* (trimmed, non-empty) block, for the properties of the conversion itself.

DigitChar == <<"0", "1", "2", "3", "4", "5", "6", "7", "8", "9">>

\* The decimal digits of n, as the parser prints them.
RECURSIVE ToDigits(_)
ToDigits(n) ==
  IF n < 10 THEN <<DigitChar[n + 1]>>
  ELSE Append(ToDigits(n \div 10), DigitChar[(n % 10) + 1])

\* The failure messages of the parser that name a line, by their shape.
LineForms ==
  {"expecting", "unknownToken", "inherited", "plain", "header", "lowercase", "lexical", "blankContext"}

LineMessage(form, n) ==
  CASE form = "expecting" ->
         <<"Parse error on line ">> \o ToDigits(n)
         \o <<":", "\n", ".", ".", ".", "a", " ", "[", "\n", "-", "-", "^", "\n",
              "Expecting ", "'", "SQE", "'", ", got '", "SQS", "'">>
    [] form = "unknownToken" ->
         <<"Parse error on line ">> \o ToDigits(n)
         \o <<":", "\n", "a", "\n", "^", "\n",
              "Expecting ", "'", "SQE", "'", ", got '", "FOO", "'">>
    [] form = "inherited" ->
         <<"Parse error on line ">> \o ToDigits(n)
         \o <<":", "\n", "a", "\n", "^", "\n",
              "Expecting ", "'", "SQE", "'", ", got '", "constructor", "'">>
    [] form = "blankContext" ->
         <<"Parse error on line ">> \o ToDigits(n)
         \o <<":", "\n", ".", ".", ".", " ", "\n", "^">>
    [] form = "header" ->
         <<"Parse error on line ">> \o ToDigits(n) \o <<":">>
    [] form = "plain" ->
         <<"Parse error on line ">> \o ToDigits(n) \o <<":", " ", "x">>
    [] form = "lowercase" ->
         <<"parse error on line ">> \o ToDigits(n) \o <<":", " ", "x">>
    [] form = "lexical" ->
         <<"Lexical error on line ">> \o ToDigits(n) \o <<".", " ", "x">>

\* Failure messages that name no line.
\* What makes each rule of the cascade but the last match, by the rule.
RulePhrases ==
  << <<"Parse error on line ", "2", ":", " ", "x">>,
     <<"Lexical error on line ", "3">>,
     <<"No diagram type detected">>,
     <<"unexpected character: ->", "%", "<- at offset: ", "2">>,
     <<"Expecting token of type ", "'", "x", "'", " but">>,
     <<"Expecting: one of these possible">> >>

\* The phrases of the rules of S, those of the later rules first.
RECURSIVE PhrasesOf(_)
PhrasesOf(S) ==
  IF S = {} THEN <<>>
  ELSE LET k == CHOOSE x \in S : \A y \in S : y <= x
       IN RulePhrases[k] \o <<" ">> \o PhrasesOf(S \ {k})

\* The messages several rules match at once.
CascadeMessages == {PhrasesOf(S) : S \in SUBSET (1..Len(RulePhrases))}

\* A message no rule but the last matches, its first line one character
\* longer than the last rule keeps.
LongMessage == [i \in 1..(FallbackMessageLimit + 1) |-> "x"] \o <<"\n", "a">>

OtherMessages ==
  { MsgOther,
    LongMessage,
    <<>>,
    <<"\n", "x">>,
    <<"No diagram type detected">>,
    <<"x", ":", " ", "unexpected character: ->", "%", "<- at offset: ", "2">>,
    <<"Expecting token of type ", "'", "x", "'", " but", " ", "x">>,
    <<"Expecting: one of these possible", " ", "x">> }

ProbeMessages ==
  {LineMessage(form, n) : form \in LineForms, n \in 0..MaxLine}
  \cup OtherMessages \cup CascadeMessages

ProbeThrown ==
  {[kind |-> "Error", message |-> m] : m \in ProbeMessages} \cup {[kind |-> "value"]}

ProbeBlocks ==
  {[code |-> c, startLine |-> n] :
     c \in {<<"a">>, <<"a", "\n", "b">>, <<"%", "%", "\n", "\n", "a", "b">>,
            [i \in 1..(ContextLimit + 1) |-> "a"] \o <<"\n", "b">>},
     n \in 1..MaxStartLine}

InitProbe ==
  /\ mermaidInstance = FALSE
  /\ windowDefined = FALSE
  /\ domSetups = 0
  /\ initializeCalls = 0
  /\ runs = 0
  /\ rule = "mermaid"
  /\ useBasic = FALSE
  /\ blocks = <<>>
  /\ pc = "idle"
  /\ idx = 1
  /\ task = <<>>
  /\ results = <<>>
  /\ settled = <<>>
  /\ acquired = {}
  /\ parsed = {}
  /\ reported = <<>>
  /\ reportedFor = <<>>
  /\ raised = FALSE
  /\ failure \in ProbeThrown
  /\ failed \in ProbeBlocks
  /\ converted = None
  /\ translated = None
  /\ ScannerIdle
  /\ DecoderIdle
  /\ CallerIdle

Convert ==
  /\ converted = None
  /\ converted' = Some(parseMermaidSyntax(failed, Throw(failure)).error)
  /\ translated' = Some(parseErrorMessage(ThrownMessage(failure), failed.code))
  /\ UNCHANGED <<process, run, fanout, output, failure, failed, scanner, decoder,
                 caller>>

SpecProbe == InitProbe /\ [][Convert]_vars

\* ------------------------------------------------- the extractor on its own
\* The extractors called one call after another in one process, over any
\* documents: the patterns and their cursors are the same objects throughout.

LangsOf(r) == IF r = "mermaid" THEN {InfoMermaid} ELSE KATEX_LANGS
PatternsOf(r) == IF r = "mermaid" THEN HTML_MERMAID_PATTERNS ELSE HTML_KATEX_PATTERNS

\* Some html_block of the tokens holds a carrier of rule r.
HasCarrier(r, ts) ==
  \E i \in 1..Len(ts) :
    /\ ts[i].type = "html_block"
    /\ \E k \in 1..Len(PatternsOf(r)) : MatchAll(ts[i].content, PatternsOf(r)[k], 1) # <<>>

Extract(r) ==
  \E doc \in ExtractDocs :
    LET res == ScanTokens(LangsOf(r), PatternsOf(r), doc, lastIndex[r])
    IN /\ rule' = r
       /\ document' = doc
       /\ fragments' = res.blocks
       /\ lastIndex' = [lastIndex EXCEPT ![r] = res.cursors]
       /\ rescan' = (rule = r /\ HasCarrier(r, document))
       /\ UNCHANGED <<process, runs, useBasic, blocks, pc, idx, fanout, output,
                      failure, failed, converted, translated, decoder, caller>>

ExtractMermaid == Extract("mermaid")
ExtractKatex == Extract("katex")

NextExtract == ExtractMermaid \/ ExtractKatex

SpecExtract == Init /\ [][NextExtract]_vars

\* ------------------------------------------- decodeHtmlEntities on its own

\* The pieces the texts are made of: the six escapes, an escape that is not
\* one of them, the tails of escapes, and plain characters.
DecodePieces ==
  { <<"&", "l", "t", ";">>, <<"&", "g", "t", ";">>, <<"&", "a", "m", "p", ";">>,
    <<"&", "q", "u", "o", "t", ";">>, <<"&", "#", "3", "9", ";">>,
    <<"&", "n", "b", "s", "p", ";">>, <<"&", "c", "o", "p", "y", ";">>,
    <<"q", "u", "o", "t", ";">>, <<"l", "t", ";">>, <<"&">>, <<"a">> }

RECURSIVE Concat(_)
Concat(ps) == IF ps = <<>> THEN <<>> ELSE Head(ps) \o Concat(Tail(ps))

DecodeInputs ==
  UNION { {Concat(ps) : ps \in [1..n -> DecodePieces]} : n \in 0..MaxPieces }

InitDecode ==
  /\ mermaidInstance = FALSE
  /\ windowDefined = FALSE
  /\ domSetups = 0
  /\ initializeCalls = 0
  /\ runs = 0
  /\ rule = "mermaid"
  /\ useBasic = FALSE
  /\ blocks = <<>>
  /\ pc = "idle"
  /\ idx = 1
  /\ task = <<>>
  /\ results = <<>>
  /\ settled = <<>>
  /\ acquired = {}
  /\ parsed = {}
  /\ reported = <<>>
  /\ reportedFor = <<>>
  /\ raised = FALSE
  /\ failure = [kind |-> "value"]
  /\ failed = [code |-> <<>>, startLine |-> 1]
  /\ converted = None
  /\ translated = None
  /\ ScannerIdle
  /\ encoded \in DecodeInputs
  /\ decoded = None
  /\ CallerIdle

Decode ==
  /\ decoded = None
  /\ decoded' = Some(decodeHtmlEntities(encoded))
  /\ UNCHANGED <<process, run, fanout, output, failure, failed, converted,
                 translated, scanner, encoded, caller>>

SpecDecode == InitDecode /\ [][Decode]_vars

\* ---------------------------------------------- the validators on their own
\* One call of one function of the validators, with arguments drawn from
\* the sets below.

\* Lines of a code: blank, a comment, a type after white space, lines that
\* begin with a digit or a sign.
BasicLinePieces ==
  { <<>>, <<" ">>, <<"%", "%", "a">>, <<" ", "a">>, <<"1", "a">>, <<"%">> }

RECURSIVE JoinLines(_)
JoinLines(ls) ==
  IF Len(ls) = 1 THEN ls[1] ELSE ls[1] \o <<"\n">> \o JoinLines(Tail(ls))

BasicCodes ==
  UNION { {JoinLines(ls) : ls \in [1..n -> BasicLinePieces]} : n \in 1..MaxBasicLines }

BasicCalls ==
  {[fn |-> "validateBasicBlock", block |-> [code |-> c, startLine |-> n]] :
     c \in BasicCodes, n \in 1..MaxStartLine}

OffsetCodes ==
  { <<"a">>, <<"a", "\n", "b">>, <<"a", "b", "\n", "\n", "c">> }

OffsetCalls ==
  {[fn |-> "handleUnexpectedChar",
    match |-> [char |-> "%", offset |-> ToDigits(k)], code |-> c] :
     c \in OffsetCodes, k \in 0..MaxOffset}

\* Messages of KaTeX: with the prefix in either case and without it, with
\* one of the phrases, with two of them in either order, with none.
KatexMessages ==
  { MsgKatexUndefined,
    <<"KaTeX parse error: ", "Expected group", " ", "Undefined control sequence">>,
    <<"Expected '}'", " ", "Unexpected end of input">>,
    <<"Unexpected end of input", " ", "Expected group", " ", "Expected '}'">>,
    <<"katex parse error: ", " ", "Unexpected end of input">>,
    <<"KaTeX parse error: ", "x">> }

KatexPositions == {None} \cup {Some(p) : p \in (0 - 1)..MaxOffset}

KatexErrors ==
  {[kind |-> "ParseError", message |-> m, position |-> p] :
     m \in KatexMessages, p \in KatexPositions}
  \cup {[kind |-> "Error", message |-> MsgOther], [kind |-> "value"]}

KatexCalls ==
  {[fn |-> "parseKatexError", error |-> e, block |-> [code |-> c, startLine |-> n]] :
     e \in KatexErrors, c \in OffsetCodes, n \in 1..MaxStartLine}

EmptyCalls ==
  {[fn |-> "checkKatexNotEmpty", block |-> [code |-> c, startLine |-> n]] :
     c \in {<<>>, <<" ", "\n">>, <<"a">>}, n \in 1..MaxStartLine}

MapperCalls ==
  {[fn |-> "parseMermaidSyntax", error |-> e, block |-> b] :
     e \in ProbeThrown, b \in ProbeBlocks}

Calls == BasicCalls \cup OffsetCalls \cup KatexCalls \cup EmptyCalls \cup MapperCalls

InitCalls ==
  /\ mermaidInstance = FALSE
  /\ windowDefined = FALSE
  /\ domSetups = 0
  /\ initializeCalls = 0
  /\ runs = 0
  /\ rule = "mermaid"
  /\ useBasic = FALSE
  /\ blocks = <<>>
  /\ pc = "idle"
  /\ idx = 1
  /\ task = <<>>
  /\ results = <<>>
  /\ settled = <<>>
  /\ acquired = {}
  /\ parsed = {}
  /\ reported = <<>>
  /\ reportedFor = <<>>
  /\ raised = FALSE
  /\ failure = [kind |-> "value"]
  /\ failed = [code |-> <<>>, startLine |-> 1]
  /\ converted = None
  /\ translated = None
  /\ ScannerIdle
  /\ DecoderIdle
  /\ call \in Calls
  /\ returned = None

\* The call is made and returns v.
Return1(name, v) ==
  /\ call.fn = name
  /\ returned = None
  /\ returned' = Some(v)
  /\ UNCHANGED <<process, run, fanout, output, failure, failed, converted,
                 translated, scanner, decoder, call>>

CallValidateBasicBlock == Return1("validateBasicBlock", validateBasicBlock(call.block))
CallHandleUnexpectedChar ==
  Return1("handleUnexpectedChar", handleUnexpectedChar(call.match, call.code))
CallParseKatexError == Return1("parseKatexError", parseKatexError(call.error, call.block))
CallCheckKatexNotEmpty == Return1("checkKatexNotEmpty", checkKatexNotEmpty(call.block))
CallParseMermaidSyntax ==
  Return1("parseMermaidSyntax", parseMermaidSyntax(call.block, Throw(call.error)))

NextCalls ==
  \/ CallValidateBasicBlock
  \/ CallHandleUnexpectedChar
  \/ CallParseKatexError
  \/ CallCheckKatexNotEmpty
  \/ CallParseMermaidSyntax

SpecCalls == InitCalls /\ [][NextCalls]_vars

\* ------------------------------------------------------------- properties

FullMode == rule = "mermaid" /\ ~useBasic
BasicMode == rule = "mermaid" /\ useBasic
IsEmptyBlock(i) == Trim(blocks[i].code) = <<>>
Failing == {i \in 1..Len(blocks) : IsSome(results[i]) /\ IsErr(Get(results[i]))}
ReportsFor(i) == {k \in 1..Len(reportedFor) : reportedFor[k] = i}

\* C1: when a full-mode run is over, the onError calls were made for the
\* failing fragments in the order the fragments were extracted, whatever the
\* order in which their validations settled, each call carrying that
\* fragment's error; when every one of the N fragments failed there are N calls.
C1_ReportedInFragmentOrder ==
  (FullMode /\ pc = "done") =>
    /\ \A k \in 1..(Len(reportedFor) - 1) : reportedFor[k] < reportedFor[k + 1]
    /\ \A k \in 1..Len(reported) :
         reported[k] = Get(results[reportedFor[k]]).error
    /\ (Failing = 1..Len(blocks)) => Len(reported) = Len(blocks)

\* C1 witness: two failures were reported whose validations settled in the
\* opposite order.
C1_Witness ==
  /\ FullMode /\ pc = "done"
  /\ Len(reported) >= 2
  /\ \E a, b \in 1..Len(settled) :
       /\ a < b /\ settled[a] > settled[b]
       /\ {settled[a], settled[b]} \subseteq Failing

\* C2: the one-time setup of getMermaid is performed at most once in the
\* process: the DOM shim is built at most once and mermaid.initialize is
\* called at most once, also when the first callers are concurrent.
C2_SetupAtMostOnce ==
  /\ domSetups <= 1
  /\ initializeCalls <= 1

\* C3: in full mode onError is not called while any fragment's validation is
\* still unsettled: calls exist only once the run is past its join.
C3_NoReportBeforeJoin ==
  (FullMode /\ reported # <<>>) =>
    /\ pc = "done"
    /\ \A i \in 1..Len(blocks) : task[i] = "settled"

\* C3 witness: a run reported, after the join, the failure of an empty
\* fragment (known at once) together with a failure the parser gave later.
C3_Witness ==
  /\ FullMode /\ pc = "done"
  /\ \E k \in 1..Len(reportedFor) : IsEmptyBlock(reportedFor[k])
  /\ \E k \in 1..Len(reportedFor) : reportedFor[k] \in parsed

\* C4: in full mode getMermaid and mermaid.parse are never called for a
\* fragment whose trimmed code is empty, and a run whose fragments are all
\* empty leaves the backend state as it was.
C4_EmptyNeverReachesAdapter ==
  [][ FullMode' =>
        /\ \A i \in 1..Len(blocks') :
             IsEmptyBlock(i)' => (i \notin acquired' /\ i \notin parsed'
                                  /\ task'[i] \in {"unstarted", "settled"})
        /\ (\A i \in 1..Len(blocks') : IsEmptyBlock(i)') => UNCHANGED process
    ]_vars

\* C4 witness: a full-mode run of empty fragments only is over, each of them
\* reported, and the backend was never set up.
C4_Witness ==
  /\ FullMode /\ pc = "done"
  /\ Len(blocks) >= 2
  /\ \A i \in 1..Len(blocks) : IsEmptyBlock(i)
  /\ Len(reported) = Len(blocks)
  /\ ~windowDefined /\ ~mermaidInstance /\ initializeCalls = 0

\* C5: during a basic-mode run getMermaid and the external parser are never
\* called and the backend state does not change.
C5_BasicNeverParses ==
  [][ (BasicMode' /\ pc' # "idle") =>
        /\ pc' \in {"basic", "done"}
        /\ acquired' = {} /\ parsed' = {}
        /\ \A i \in 1..Len(task') : task'[i] = "unstarted"
        /\ UNCHANGED process
    ]_vars

\* C5 witness: a basic-mode run over non-empty fragments is over with a
\* failure reported and no backend set up.
C5_Witness ==
  /\ BasicMode /\ pc = "done"
  /\ \E i \in 1..Len(blocks) : ~IsEmptyBlock(i) /\ i \in Failing
  /\ \E i \in 1..Len(blocks) : ~IsEmptyBlock(i) /\ i \notin Failing
  /\ ~mermaidInstance

EmptyDetail ==
  IF rule = "katex"
  THEN <<"Empty math block. Add a LaTeX expression (e.g., E = mc^2)">>
  ELSE <<"Empty Mermaid diagram. Add a diagram type (e.g., flowchart, sequenceDiagram) and content">>

\* C6: when a run of either rule, in any mode, is over, every fragment whose
\* code trims to the empty string has exactly one onError call, with the
\* empty-content detail of the rule and the fragment's startLine.
C6_EmptyReportedOnce ==
  pc = "done" =>
    \A i \in 1..Len(blocks) :
      IsEmptyBlock(i) =>
        /\ Cardinality(ReportsFor(i)) = 1
        /\ \A k \in ReportsFor(i) :
             /\ reported[k].lineNumber = blocks[i].startLine
             /\ reported[k].detail = EmptyDetail

\* C6 witness: a full-mode run is over in which a white-space-only fragment
\* and a fragment the parser rejected were both reported.
C6_Witness ==
  /\ FullMode /\ pc = "done"
  /\ \E i \in 1..Len(blocks) :
       IsEmptyBlock(i) /\ blocks[i].code # <<>> /\ ReportsFor(i) # {}
  /\ \E i \in 1..Len(blocks) : ~IsEmptyBlock(i) /\ ReportsFor(i) # {}

\* C7: a parser failure whose message names the fragment-relative line n >= 1,
\* for a fragment with start line S, is converted to a ValidationError whose
\* lineNumber is S + n - 1.
C7_LineOffsetLaw ==
  IsSome(converted) =>
    \A form \in LineForms, n \in 1..MaxLine :
      (failure.kind = "Error" /\ failure.message = LineMessage(form, n)) =>
        Get(converted).lineNumber = failed.startLine + n - 1

\* C7 witness: the tests' case, line 3 of a fragment starting at line 2 is
\* reported at line 4.
C7_Witness ==
  /\ IsSome(converted)
  /\ failure.kind = "Error"
  /\ failure.message = LineMessage("expecting", 3)
  /\ failed.startLine = 2
  /\ Get(converted).lineNumber = 4

\* C8: no run of either rule throws or rejects to its caller, whatever the
\* parser or the backend's initialization throws.
C8_NeverRaises == ~raised

\* C8 witness: a full-mode run is over in which the parser threw a value that
\* is no Error for one fragment and the backend failed to initialize for
\* another, and both were reported.
C8_Witness ==
  /\ FullMode /\ pc = "done"
  /\ \E k \in 1..Len(reported) : reported[k].detail[1] = "Unknown parse error"
  /\ \E k \in 1..Len(reported) :
       reportedFor[k] \in acquired \ parsed /\ reported[k].detail[1] = "x"

\* C9: when a run is over, every fragment whose validation failed has exactly
\* one onError call and every fragment whose validation passed has none, so
\* the number of calls is the number of failing fragments.
C9_OneReportPerFailure ==
  pc = "done" =>
    /\ \A i \in 1..Len(blocks) :
         /\ IsSome(results[i])
         /\ Cardinality(ReportsFor(i)) = IF IsErr(Get(results[i])) THEN 1 ELSE 0
    /\ Len(reported) = Cardinality(Failing)

\* C9 witness: a run is over with two failing fragments reported and a
\* passing fragment not reported.
C9_Witness ==
  /\ pc = "done"
  /\ Len(reported) >= 2
  /\ \E i \in 1..Len(blocks) : IsOk(Get(results[i])) /\ ReportsFor(i) = {}

\* The fragments among the first n that the basic check rejects, in order.
BasicFailures(n) ==
  LET acc[m \in 0..n] ==
        IF m = 0 THEN <<>>
        ELSE IF IsErr(validateBasicBlock(blocks[m])) THEN Append(acc[m - 1], m)
             ELSE acc[m - 1]
  IN acc[n]

C11_DocumentOrder ==
  \A i, j \in 1..Len(fragments) :
    i < j => fragments[i].startLine <= fragments[j].startLine

\* The matches of the patterns of rule r in one HTML content, as the set of
\* their positions (pattern, match).
CarrierMatches(r, html) ==
  {km \in (1..Len(PatternsOf(r))) \X (1..Len(html)) :
     km[2] <= Len(MatchAll(html, PatternsOf(r)[km[1]], 1))}
MatchAt(r, html, km) == MatchAll(html, PatternsOf(r)[km[1]], 1)[km[2]]
NewlinesBefore(html, index) == Cardinality({p \in 1..index : html[p] = "\n"})
MatchingFences(r, ts) ==
  {i \in 1..Len(ts) : ts[i].type = "fence" /\ ToLowerCase(Trim(ts[i].info)) \in LangsOf(r)}
HtmlTokens(ts) == {i \in 1..Len(ts) : ts[i].type = "html_block"}
RECURSIVE SumOver(_, _)
SumOver(S, f) ==
  IF S = {} THEN 0
  ELSE LET x == CHOOSE y \in S : TRUE IN f[x] + SumOver(S \ {x}, f)

\* C12: for an HTML token at line T, every carrier match in its content has a
\* fragment of its own, whose startLine is T plus the newlines before the
\* match and whose code is the captured text, decoded and then trimmed.
C12_HtmlCarrierFragments ==
  /\ \A i \in HtmlTokens(document) :
       \A km \in CarrierMatches(rule, document[i].content) :
         LET m == MatchAt(rule, document[i].content, km)
         IN \E f \in 1..Len(fragments) :
              /\ fragments[f].startLine =
                   document[i].lineNumber + NewlinesBefore(document[i].content, m.index)
              /\ fragments[f].code = Trim(decodeHtmlEntities(m.group))
  /\ Len(fragments) =
       Cardinality(MatchingFences(rule, document))
       + SumOver(HtmlTokens(document),
                 [i \in HtmlTokens(document) |->
                    Cardinality(CarrierMatches(rule, document[i].content))])

C12_Witness ==
  /\ rule = "mermaid"
  /\ \E i \in HtmlTokens(document) :
       /\ Cardinality(CarrierMatches(rule, document[i].content)) = 2
       /\ \E f \in 1..Len(fragments) :
            /\ fragments[f].startLine = document[i].lineNumber + 3
            /\ fragments[f].code = <<"b">>
       /\ \E f \in 1..Len(fragments) :
            /\ fragments[f].startLine = document[i].lineNumber
            /\ fragments[f].code = <<"<", "a">>

\* What the tokens yield one by one: a fence by its info string alone, any
\* other token what the extractor returns for it.
RECURSIVE YieldOfTokens(_, _)
YieldOfTokens(r, ts) ==
  IF ts = <<>> THEN <<>>
  ELSE LET t == Head(ts)
           zero == [k \in 1..Len(PatternsOf(r)) |-> 0]
           here ==
             IF t.type = "fence"
             THEN IF ToLowerCase(Trim(t.info)) \in LangsOf(r)
                  THEN <<[code |-> t.content, startLine |-> t.lineNumber]>>
                  ELSE <<>>
             ELSE ScanHtml(PatternsOf(r), 1, t.content, t.lineNumber, zero).blocks
       IN here \o YieldOfTokens(r, Tail(ts))

\* C13: a fence yields a fragment exactly when its info string, trimmed and
\* lower-cased, is a tag of the rule; the fragment is the fence's content as
\* it is and the fence's line; a fence is never scanned for HTML carriers.
C13_FenceByTag ==
  /\ fragments = YieldOfTokens(rule, document)
  /\ \A i \in 1..Len(document) :
       (document[i].type = "fence" /\ Len(document) = 1) =>
         fragments = IF i \in MatchingFences(rule, document)
                     THEN <<[code |-> document[i].content,
                             startLine |-> document[i].lineNumber]>>
                     ELSE <<>>

C13_Witness ==
  /\ rule = "mermaid"
  /\ Len(document) = 2
  /\ document[1].type = "fence" /\ document[1].info # InfoMermaid
  /\ document[2].type = "fence" /\ document[2].content[1] = "<div class='mermaid'>"
  /\ fragments = <<[code |-> <<"a", "\n">>, startLine |-> 2]>>

\* C17: whatever calls were made before, the extractor returns for a token
\* sequence the list it returns when the patterns' cursors are at rest, and
\* leaves the cursors at rest.
C17_ExtractionStateless ==
  /\ fragments = IF rule = "mermaid" THEN extractMermaidBlocks(document)
                 ELSE extractKatexBlocks(document)
  /\ \A r \in DOMAIN lastIndex : \A k \in DOMAIN lastIndex[r] : lastIndex[r][k] = 0

C17_Witness ==
  /\ rescan
  /\ HasCarrier(rule, document)
  /\ Len(fragments) >= 2

\* --------------------------------------------------- properties of the translator

\* The rules of the cascade whose test the message passes; the last one has
\* no test.
MatchingRules(msg) ==
  {k \in 1..7 :
     \/ k = 1 /\ IsSome(MatchParseError(msg))
     \/ k = 2 /\ IsSome(MatchLexicalError(msg))
     \/ k = 3 /\ Includes(msg, "No diagram type detected")
     \/ k = 4 /\ IsSome(MatchUnexpectedChar(msg))
     \/ k = 5 /\ IsSome(MatchExpectingToken(msg))
     \/ k = 6 /\ Includes(msg, "Expecting: one of these possible")
     \/ k = 7}

\* The rule a diagnostic comes from, read off its hint: each rule after the
\* first has a hint of its own.
RuleOfDiagnostic(p) ==
  CASE p.hint = Some(<<"Check for typos, invalid keywords, or unsupported syntax">>) -> 2
    [] p.hint = handleNoDiagramType(<<>>).hint -> 3
    [] p.hint = Some(<<"Check for typos, missing quotes, or invalid characters">>) -> 4
    [] p.hint = Some(<<"Check the diagram syntax and structure">>) -> 5
    [] p.hint = Some(<<"Check command syntax (e.g., branch name, checkout target)">>) -> 6
    [] p.hint = Some(<<"Check the diagram syntax for errors">>) -> 7
    [] OTHER -> 1

\* C14: the diagnostic of a raw message is that of the earliest rule, in the
\* order parse error, lexical error, no diagram type, unexpected character,
\* expected token, alternatives, fallback, whose test the message passes.
C14_EarliestRuleWins ==
  IsSome(translated) =>
    RuleOfDiagnostic(Get(translated)) = MinOf(MatchingRules(ThrownMessage(failure)))

C14_Witness ==
  /\ IsSome(translated)
  /\ MatchingRules(ThrownMessage(failure)) = {3, 4, 6, 7}
  /\ RuleOfDiagnostic(Get(translated)) = 3

\* C15: the ParsedError the translator returns has a message that is a
\* text and is not empty, whatever the raw message is.
C15_MessageNeverEmpty ==
  IsSome(translated) =>
    /\ Get(translated).message # <<>>
    /\ Get(translated).message # <<Undefined>>

\* The token of "Expecting ..., got 'TOKEN'" in a positional parse failure.
GotToken ==
  IF IsSome(MatchParseError(ThrownMessage(failure)))
  THEN MatchExpectingGot(ThrownMessage(failure)) ELSE None

\* C16: in a positional parse failure naming the token it got, the message
\* and the hint are the pair the table has for the token when the token is
\* a key of the table, and the generic message with the token in it and the
\* generic hint when it is not.
C16_TokenHintComplete ==
  (IsSome(translated) /\ IsSome(GotToken)) =>
    LET token == Get(GotToken)
        p == Get(translated)
    IN IF Len(token) = 1 /\ token[1] \in DOMAIN TOKEN_HINTS
       THEN /\ p.message = <<TOKEN_HINTS[token[1]].message>>
            /\ p.hint = Some(<<TOKEN_HINTS[token[1]].hint>>)
       ELSE /\ p.message = <<"Syntax error: unexpected \"">> \o token \o <<"\"">>
            /\ p.hint = Some(<<"Check the syntax near this position">>)

\* ------------------------------------------------------ property of the decoder

\* The six escapes and the character each stands for.
Escapes ==
  { [escape |-> <<"&", "l", "t", ";">>, literal |-> "<"],
    [escape |-> <<"&", "g", "t", ";">>, literal |-> ">"],
    [escape |-> <<"&", "a", "m", "p", ";">>, literal |-> "&"],
    [escape |-> <<"&", "q", "u", "o", "t", ";">>, literal |-> "\""],
    [escape |-> <<"&", "#", "3", "9", ";">>, literal |-> "'"],
    [escape |-> <<"&", "n", "b", "s", "p", ";">>, literal |-> " "] }

\* One pass over the text from left to right: an escape that starts here is
\* replaced and skipped, any other character is kept.
RECURSIVE SinglePass(_)
SinglePass(s) ==
  IF s = <<>> THEN <<>>
  ELSE LET here == {e \in Escapes : /\ Len(e.escape) <= Len(s)
                                    /\ SubSeq(s, 1, Len(e.escape)) = e.escape}
       IN IF here = {} THEN <<Head(s)>> \o SinglePass(Tail(s))
          ELSE LET e == CHOOSE x \in here : TRUE
               IN <<e.literal>> \o SinglePass(SubSeq(s, Len(e.escape) + 1, Len(s)))

\* C18: decodeHtmlEntities returns what one pass from left to right over its
\* input returns: each of the six escapes replaced by its character, all
\* other text as it is, and nothing decoded twice.
C18_DecodeIsSinglePass ==
  IsSome(decoded) => Get(decoded) = SinglePass(encoded)

\* ------------------------------------------------ properties of the fan-out

NonEmptyBlocks == {i \in 1..Len(blocks) : ~IsEmptyBlock(i)}

\* C19, with the parse request: when the full-mode run waits for the outcomes, getMermaid
\* and mermaid.parse have been called for every non-empty fragment.
C19_ParseIssuedBeforeWait ==
  (FullMode /\ pc = "join") =>
    \A i \in NonEmptyBlocks : i \in acquired /\ i \in parsed

\* C19, with the acquisition only: when the full-mode run waits for the outcomes, getMermaid
\* has been called for every non-empty fragment; mermaid.parse is called for a
\* fragment only after that, and a fragment whose own getMermaid call is
\* pending or has resolved can take its next step whatever the state of the
\* other fragments is.
C19_AllStartedBeforeWait ==
  /\ (FullMode /\ pc = "join") => \A i \in NonEmptyBlocks : i \in acquired
  /\ FullMode => parsed \subseteq acquired
  /\ (FullMode /\ pc = "fanout") => parsed = {}
  /\ \A i \in 1..Len(task) :
       (FullMode /\ pc = "join") =>
         /\ task[i] = "importing" => ENABLED getMermaidResume(i)
         /\ task[i] = "resolved" => ENABLED CallParse(i)
         /\ task[i] = "parsing" => ENABLED ParseSettles(i)

C19_Witness ==
  /\ FullMode /\ pc = "join"
  /\ Cardinality(NonEmptyBlocks) >= 2
  /\ \E i \in parsed, j \in acquired : task[i] = "parsing" /\ task[j] = "importing"

\* C20: once getMermaid has stored the instance, a getMermaid call made
\* afterwards resolves with it at once and leaves the process as it is: no
\* DOM setup, no import, no mermaid.initialize; the instance stays stored.
C20_CachedInstanceReused ==
  [][ /\ mermaidInstance => mermaidInstance'
      /\ (mermaidInstance /\ pc = "fanout" /\ idx \in acquired' \ acquired) =>
           /\ task'[idx] = "resolved"
           /\ UNCHANGED process ]_vars

C20_Witness ==
  /\ mermaidInstance
  /\ runs = 2
  /\ pc = "fanout"
  /\ Cardinality(acquired) >= 2
  /\ \A i \in acquired : task[i] = "resolved"
  /\ initializeCalls = 1

\* ---------------------------------------------- properties of the fragments

\* The results a block can get from its own code, its own start line, the
\* rule and its mode, for every outcome its own parser call or backend
\* acquisition can have.
OwnResults(r, basic, b) ==
  IF r = "katex"
  THEN {validateKatexBlock(b, o) : o \in {Resolve} \cup {Throw(e) : e \in KatexThrown}}
  ELSE IF basic THEN {validateBasicBlock(b)}
  ELSE IF IsErr(checkNotEmpty(b)) THEN {checkNotEmpty(b)}
  ELSE {parseMermaidSyntax(checkNotEmpty(b).value, o) :
          o \in {Resolve} \cup {Throw(e) : e \in MermaidThrown \cup InitThrown}}

\* C21: the result of a fragment, and the diagnostic reported for it, is one
\* its own code, start line and rule configuration give, whatever the other
\* fragments of the document are and in whatever order the validations end.
C21_FragmentsIndependent ==
  /\ \A i \in 1..Len(results) :
       IsSome(results[i]) => Get(results[i]) \in OwnResults(rule, useBasic, blocks[i])
  /\ \A k \in 1..Len(reported) :
       Err(reported[k]) \in OwnResults(rule, useBasic, blocks[reportedFor[k]])

C21_Witness ==
  /\ FullMode /\ pc = "done"
  /\ Len(blocks) >= 2
  /\ settled[1] > settled[2]
  /\ settled[1] \in parsed /\ settled[2] \in parsed
  /\ IsErr(Get(results[settled[1]])) /\ IsOk(Get(results[settled[2]]))
  /\ blocks[settled[1]].startLine # blocks[settled[2]].startLine
  /\ reportedFor = <<settled[1]>>

\* ------------------------------------------- properties of single functions

\* The lines of a code that are neither blank nor a comment, once trimmed.
SignificantLines(code) ==
  {k \in 1..Len(SplitLines(code)) :
     LET t == Trim(SplitLines(code)[k])
     IN t # <<>> /\ ~(Len(t) >= 2 /\ t[1] = "%" /\ t[2] = "%")}

\* C22: on a non-empty fragment validateBasicBlock succeeds exactly when the
\* first line that is neither blank nor a comment begins with a letter;
\* otherwise, also when there is no such line, it returns the missing-type
\* error at the fragment's start line.
C22_BasicFirstLineRule ==
  (call.fn = "validateBasicBlock" /\ IsSome(returned) /\ Trim(call.block.code) # <<>>) =>
    LET sig == SignificantLines(call.block.code)
        r == Get(returned)
    IN IF sig # {} /\ Trim(SplitLines(call.block.code)[MinOf(sig)])[1] \in Letters
       THEN IsOk(r)
       ELSE /\ IsErr(r)
            /\ r.error.lineNumber = call.block.startLine
            /\ r.error.detail = <<"Missing diagram type declaration. Start with a diagram type like: flowchart, sequenceDiagram, classDiagram">>

C22_Witness ==
  /\ call.fn = "validateBasicBlock"
  /\ call.block.code = <<"%", "%", "a", "\n", "%", "%", "a">>
  /\ call.block.startLine = 2
  /\ IsSome(returned) /\ IsErr(Get(returned))
  /\ Get(returned).error.lineNumber = 2

\* The text before the first newline of a message.
FirstLineOf(msg) ==
  LET nl == {i \in 1..Len(msg) : msg[i] = "\n"}
  IN IF nl = {} THEN msg ELSE SubSeq(msg, 1, MinOf(nl) - 1)

\* C23: a message no rule of the cascade matches gets the diagnostic of the
\* last rule: no line, the first line of the message cut to its first 150
\* characters, the generic hint and no context; the error made of it is at
\* the fragment's start line.
C23_FallbackDiagnostic ==
  (IsSome(translated) /\ MatchingRules(ThrownMessage(failure)) = {7}) =>
    LET p == Get(translated)
        first == FirstLineOf(ThrownMessage(failure))
    IN /\ p.line = None
       /\ p.message = [i \in 1..(IF Len(first) < 150 THEN Len(first) ELSE 150) |-> first[i]]
       /\ p.hint = Some(<<"Check the diagram syntax for errors">>)
       /\ p.context = None
       /\ Get(converted).lineNumber = failed.startLine

C23_Witness ==
  /\ IsSome(translated)
  /\ failure.kind = "Error" /\ Len(FirstLineOf(failure.message)) = 151
  /\ Len(Get(translated).message) = 150
  /\ failed.startLine = 2 /\ Get(converted).lineNumber = 2

\* C24: handleUnexpectedChar returns 1 plus the number of newlines among the
\* first min(offset, length) characters of the code, a line between 1 and
\* the number of lines of the code.
C24_OffsetLineCoversOffset ==
  (call.fn = "handleUnexpectedChar" /\ IsSome(returned)) =>
    LET offset == ParseInt(call.match.offset)
        covered == IF offset < Len(call.code) THEN offset ELSE Len(call.code)
        line == Get(Get(returned).line)
    IN /\ line = 1 + CountNewlines(SubSeq(call.code, 1, covered))
       /\ line >= 1
       /\ line <= Len(SplitLines(call.code))

\* C25: for a KaTeX ParseError with a numeric position p on a fragment
\* starting at line S the line of the error is S plus the number of newlines
\* in code[0..p); without a numeric position, and for any other thrown
\* value, it is S.
C25_KatexLineFromPosition ==
  (call.fn = "parseKatexError" /\ IsSome(returned)) =>
    LET e == call.error
        code == call.block.code
        S == call.block.startLine
        before(p) == {i \in 1..Len(code) : i <= p /\ code[i] = "\n"}
    IN Get(returned).lineNumber =
         IF e.kind = "ParseError" /\ IsSome(e.position)
         THEN S + Cardinality(before(Get(e.position)))
         ELSE S

C25_Witness ==
  /\ call.fn = "parseKatexError" /\ IsSome(returned)
  /\ call.error.kind = "ParseError" /\ call.error.position = Some(4)
  /\ call.block.code = <<"a", "b", "\n", "\n", "c">>
  /\ call.block.startLine = 2
  /\ Get(returned).lineNumber = 4

\* The phrases KaTeX's hints are chosen by, in the order they are asked for.
KatexPhrases ==
  << "Undefined control sequence", "Expected '}'", "Expected group",
     "Unexpected end of input" >>

KatexHints ==
  << ". Check for typos in command names or use \\text{} for regular text",
     ". Make sure all braces {} are properly closed",
     ". Add the required argument in braces: \\command{argument}",
     ". The expression is incomplete - check for missing closing braces or arguments" >>

\* C26: the detail of a KaTeX ParseError is the message without its
\* 'KaTeX parse error:' prefix, followed by the hint of the first phrase, in
\* the fixed order, that occurs in it; with none of the phrases the detail is
\* the stripped message alone.
C26_KatexDetail ==
  (call.fn = "parseKatexError" /\ IsSome(returned) /\ call.error.kind = "ParseError") =>
    LET m == call.error.message
        clean == IF m # <<>> /\ m[1] \in {"KaTeX parse error: ", "katex parse error: "}
                 THEN TrimStart(Tail(m)) ELSE m
        hits == {i \in 1..4 : \E j \in 1..Len(clean) : clean[j] = KatexPhrases[i]}
    IN Get(returned).detail =
         IF hits = {} THEN clean ELSE clean \o <<KatexHints[MinOf(hits)]>>

C26_Witness ==
  /\ call.fn = "parseKatexError" /\ IsSome(returned)
  /\ call.error.kind = "ParseError"
  /\ call.error.message =
       <<"KaTeX parse error: ", "Expected group", " ", "Undefined control sequence">>
  /\ Get(returned).detail =
       <<"Expected group", " ", "Undefined control sequence", KatexHints[1]>>

\* C27: every error either rule makes for a fragment, in any mode, is at a
\* line greater than or equal to the fragment's start line, whatever the
\* parser's message, the line it names (0 included) and the position it
\* reports.
C27_LineNotBeforeFragment ==
  (IsSome(returned) /\ call.fn # "handleUnexpectedChar") =>
    LET r == Get(returned) IN
    IF call.fn = "parseKatexError"
    THEN r.lineNumber >= call.block.startLine
    ELSE IsErr(r) => r.error.lineNumber >= call.block.startLine

C27_Witness ==
  /\ call.fn = "parseMermaidSyntax" /\ IsSome(returned)
  /\ call.error.kind = "Error"
  /\ call.error.message = LineMessage("plain", 0)
  /\ call.block.startLine = 1
  /\ Get(returned).error.lineNumber = 1

\* C28: a failed initialization of the backend is not cached.  A step in
\* which getMermaid fails for a block (the import rejects or initialize
\* throws) leaves mermaidInstance as it was, unset if it was unset; when the
\* run ends each block whose getMermaid failed has exactly one diagnostic;
\* and a call of getMermaid that finds no instance starts the import again.
C28_FailedInitNotCached ==
  [][ /\ (pc = "join" /\ \E i \in 1..Len(task) :
            task[i] = "importing" /\ IsSome(results'[i]) /\ ~IsSome(results[i])) =>
           mermaidInstance' = mermaidInstance
      /\ (pc = "join" /\ pc' = "done" /\ rule = "mermaid" /\ ~useBasic) =>
           \A i \in acquired \ parsed :
             Cardinality({k \in 1..Len(reportedFor') : reportedFor'[k] = i}) = 1
      /\ (~mermaidInstance /\ pc = "fanout" /\ idx \in acquired' \ acquired) =>
           task'[idx] = "importing" ]_vars

\* A second run, after a run in which initialize threw, is importing again.
C28_Witness ==
  /\ runs = 2
  /\ ~mermaidInstance
  /\ initializeCalls >= 1
  /\ pc = "join"
  /\ \E i \in 1..Len(task) : task[i] = "importing"

\* The positions of the content a match captures as its group.
Captured(m) == {m.index + 1 + k : k \in 1..Len(m.group)}

\* C29: the fragments of one HTML token are captured from regions of its
\* content that do not overlap pairwise: a carrier nested in another carrier
\* does not give two fragments for the same text.
C29_NoRegionTwice ==
  \A i \in HtmlTokens(document) :
    \A km1, km2 \in CarrierMatches(rule, document[i].content) :
      km1 # km2 =>
        Captured(MatchAt(rule, document[i].content, km1))
          \cap Captured(MatchAt(rule, document[i].content, km2)) = {}

\* C30: the error made of a parser failure in full mode has a context that
\* is not empty: the diagnostic's context when that is not empty, otherwise
\* the first 40 characters of the first line of the fragment's trimmed code.
C30_ContextNeverEmpty ==
  IsSome(converted) =>
    LET c == Get(converted).context
        t == Get(translated).context
        first == FirstLineOf(failed.code)
    IN /\ IsSome(c)
       /\ Get(c) # <<>>
       /\ Get(c) = IF IsSome(t) /\ Get(t) # <<>> THEN Get(t)
                   ELSE [i \in 1..(IF Len(first) < 40 THEN Len(first) ELSE 40) |-> first[i]]

C30_Witness ==
  /\ IsSome(converted)
  /\ Get(translated).context = Some(<<>>)
  /\ Len(FirstLineOf(failed.code)) = 41
  /\ Get(converted).context = Some([i \in 1..40 |-> "a"])

====
